---- MODULE Spec2Model ----
(***************************************************************************)
(* Veteran Club Bot (src/bot.py): the participant entity (VeteranData),    *)
(* the interaction handlers of the economy (water, send coins, daily       *)
(* check-in, chat rewards, admin commands) and the background tasks        *)
(* (degrade_task, veteran_scan_task, daily_survival_task).                 *)
(*                                                                         *)
(* Time is the integer `now`, in minutes since midnight UTC of day 0.      *)
(* Calendar dates are day numbers; the empty date string "" is NoDate.     *)
(* The veteran role is configured and belongs to one guild, in which every *)
(* user is a member; roleMembers is the set of role holders.               *)
(***************************************************************************)
EXTENDS Integers, Sequences, FiniteSets, TLC

VARIABLES
    veterans,     \* self.veterans: user id -> VeteranData fields
    stored,       \* content of data.json: user id -> to_dict()
    config,       \* self.config
    roleMembers,  \* role.members of the veteran role
    now,          \* wall clock, minutes
    reply,        \* text of the last inter.response.send_message
    degradeLast,  \* degrade_task.last (NoTime while the attribute is unset)
    degradeRun,   \* the suspended degrade_task iteration (pc, snapshot, uid, changed)
    degradeDied,  \* uid -> number of times the "plant died" branch was entered
    survivalRun,  \* the suspended daily_survival_task iteration (pc, to_remove, rest)
    boot,         \* VeteranBot.__init__: "starting", "running" or "aborted"
    disk,         \* the text of data.json and of data.json.tmp, where followed
    saveRun,      \* the position of the save_json call under way
    panel,        \* the leaderboard embed last built: its rows, in order
    bar,          \* the arguments and the result of the last render_bar call
    handlerRun,   \* user id -> the interaction handler suspended for that user
    warnRun,      \* the suspended daily_warning_task iteration (pc, guild, channels)
    warnLog       \* guild -> the daily messages that reached it, by date and poll

vars == <<veterans, stored, config, roleMembers, now, reply,
          degradeLast, degradeRun, degradeDied, survivalRun,
          boot, disk, saveRun, panel, bar, handlerRun, warnRun, warnLog>>

schedVars == <<degradeLast, degradeRun, degradeDied, survivalRun>>

hostVars == <<boot, disk, saveRun, panel, bar, handlerRun, warnRun, warnLog>>

---------------------------------------------------------------------------
(* Bounds of the model *)

MaxCoins == 45
MaxXp == 13
MaxMessages == 2
MaxDay == 2

Users == {"u1", "u2"}

---------------------------------------------------------------------------
(* Program constants: the defaults of VeteranBot.__init__ *)

DefaultWaterCost == 10
DefaultPlantMaxWater == 100
DefaultDecreaseIntervalMinutes == 60
DefaultDecreaseAmount == 1
DefaultXpPerMessage == 5
DefaultCoinsPerMessage == 2
DefaultCooldownSeconds == 60
DefaultMaxCoinsSendPerDay == 100
DefaultDailyMinMessages == 10
DefaultLowWaterThreshold == 20
DefaultWarningHour == 20
daily_base_coins == 10
daily_base_xp == 5
daily_streak_bonus_coins == 2
daily_streak_bonus_xp == 1
daily_streak_cap == 7

MinutesPerDay == 1440
SecondsPerMinute == 60
\* date.today() is the date of the host's zone, taken here as UTC;
\* datetime.now(ZoneInfo("Asia/Karachi")) is UTC+5 all year.
KarachiOffsetMinutes == 300

NoDate == -1
NoTime == -1
NoUser == "none"

---------------------------------------------------------------------------
(* Clock *)

now_ts(t) == t * SecondsPerMinute

date_today(t) == t \div MinutesPerDay

local_date(t) == (t + KarachiOffsetMinutes) \div MinutesPerDay

local_minute_of_day(t) == (t + KarachiOffsetMinutes) % MinutesPerDay

Min(a, b) == IF a <= b THEN a ELSE b

---------------------------------------------------------------------------
(* VeteranData *)

\* VeteranData(uid, {}, config): every field takes its default
NewVeteran(cfg, t) ==
    [ coins |-> 0,
      xp |-> 0,
      plant_start |-> now_ts(t),
      water_level |-> cfg.plant_max_water,
      last_message_time |-> 0,
      coins_sent_today |-> 0,
      last_coins_reset |-> date_today(t),
      last_daily_claim |-> NoDate,
      daily_streak |-> 0,
      last_lb_refresh |-> NoDate,
      messages_today |-> 0,
      last_message_day_local |-> NoDate ]

add_xp_coins(v, xp_amount, coin_amount) ==
    [v EXCEPT !.xp = @ + xp_amount, !.coins = @ + coin_amount]

\* reset_daily_limit that clears the counter on every call
reset_daily_limit_always(v, today) ==
    [v EXCEPT !.coins_sent_today = 0, !.last_coins_reset = today]

\* reset_daily_limit that never clears the counter
reset_daily_limit_never(v, today) == v

reset_daily_limit(v, today) ==
    IF v.last_coins_reset # today
    THEN [v EXCEPT !.coins_sent_today = 0, !.last_coins_reset = today]
    ELSE v

\* can_send without the balance test
can_send_no_balance(v, amount, cfg, today) ==
    LET r == reset_daily_limit(v, today)
    IN  amount > 0 /\ r.coins_sent_today + amount <= cfg.max_coins_send_per_day

\* can_send without the daily cap test
can_send_no_cap(v, amount, cfg, today) ==
    LET r == reset_daily_limit(v, today)
    IN  amount > 0 /\ r.coins >= amount

\* can_send first normalises the marker (kept on the entity), then decides
can_send(v, amount, cfg, today) ==
    LET r == reset_daily_limit(v, today)
    IN  amount > 0 /\ r.coins >= amount
        /\ r.coins_sent_today + amount <= cfg.max_coins_send_per_day

\* record_send that counts the amount and does not take it
record_send_no_debit(v, amount, today) ==
    LET r == reset_daily_limit(v, today)
    IN  [r EXCEPT !.coins_sent_today = @ + amount]

record_send(v, amount, today) ==
    LET r == reset_daily_limit(v, today)
    IN  [r EXCEPT !.coins_sent_today = @ + amount, !.coins = @ - amount]

\* receive that credits the amount twice
receive_twice(v, amount) == [v EXCEPT !.coins = @ + 2 * amount]

receive(v, amount) == [v EXCEPT !.coins = @ + amount]

water_plant_ok(v, cfg) == v.coins >= cfg.water_cost

\* water_plant that debits the cost and leaves the water level as it is
water_plant_no_refill(v, cfg) ==
    IF water_plant_ok(v, cfg)
    THEN [v EXCEPT !.coins = @ - cfg.water_cost]
    ELSE v

water_plant(v, cfg) ==
    IF water_plant_ok(v, cfg)
    THEN [v EXCEPT !.coins = @ - cfg.water_cost, !.water_level = cfg.plant_max_water]
    ELSE v

degrade(v, cfg) == [v EXCEPT !.water_level = @ - cfg.water_decrease_amount]

is_alive(v) == v.water_level > 0

---------------------------------------------------------------------------
(* VeteranBot helpers *)

\* self.veterans.get(uid) or a new VeteranData stored under uid
GetOrCreate(vets, u, cfg, t) ==
    IF u \in DOMAIN vets THEN vets
    ELSE [x \in DOMAIN vets \cup {u} |-> IF x = u THEN NewVeteran(cfg, t) ELSE vets[x]]

save_all(vets) == vets

\* build_garden_embeds, reached through ensure_garden_panel when the garden
\* channel is set: every role member without an entity gets a new one
ensure_garden_panel(vets, members, cfg, t) ==
    IF cfg.garden_channel_id = 0 THEN vets
    ELSE [x \in DOMAIN vets \cup members |->
            IF x \in DOMAIN vets THEN vets[x] ELSE NewVeteran(cfg, t)]

Remove(vets, S) == [x \in DOMAIN vets \ S |-> vets[x]]

---------------------------------------------------------------------------
(* Interaction handlers.  A handler runs without suspension up to its     *)
(* first await; its state changes all precede that point, so each is one  *)
(* step.  The reply is the message the handler sends.                     *)

\* water_cb without the test of the veteran role
water_cb_no_role_test(u) ==
    /\ LET vs == GetOrCreate(veterans, u, config, now)
           after == [vs EXCEPT ![u] = water_plant(vs[u], config)]
       IN  IF water_plant_ok(vs[u], config)
           THEN /\ stored' = save_all(after)
                /\ veterans' = ensure_garden_panel(after, roleMembers, config, now)
                /\ reply' = "Watered!"
           ELSE /\ veterans' = vs
                /\ UNCHANGED stored
                /\ reply' = "Not enough coins"
    /\ UNCHANGED <<config, roleMembers, now, schedVars, hostVars>>

\* what one water_cb call by u makes of the map and the file, up to the
\* first suspension of the callback: [veterans, stored, reply]
water_result(vets, st, u) ==
    IF u \notin roleMembers
    THEN [veterans |-> vets, stored |-> st, reply |-> "Only veterans can water."]
    ELSE LET vs == GetOrCreate(vets, u, config, now)
             after == [vs EXCEPT ![u] = water_plant(vs[u], config)]
         IN  IF water_plant_ok(vs[u], config)
             THEN [veterans |-> ensure_garden_panel(after, roleMembers, config, now),
                   stored |-> save_all(after),
                   reply |-> "Watered!"]
             ELSE [veterans |-> vs, stored |-> st, reply |-> "Not enough coins"]

\* water_cb: the Water My Plant button pressed by u
water_cb(u) ==
    /\ LET r == water_result(veterans, stored, u)
       IN  /\ veterans' = r.veterans
           /\ stored' = r.stored
           /\ reply' = r.reply
    /\ UNCHANGED <<config, roleMembers, now, schedVars, hostVars>>

\* send_open: the Send Coins button pressed by u (opens a SendCoinsView)
send_open(u) ==
    /\ IF u \notin roleMembers
       THEN /\ reply' = "Only veterans can send coins."
            /\ UNCHANGED veterans
       ELSE /\ veterans' = GetOrCreate(veterans, u, config, now)
            /\ reply' = "Choose recipient and amount:"
    /\ UNCHANGED <<stored, config, roleMembers, now, schedVars, hostVars>>

\* SendCoinsView.perform_transfer on a view opened by sender_id, with
\* selected_user_id picked in the dropdown (NoUser while nothing is picked)

\* what one perform_transfer call makes of the map vets and the file st:
\* [veterans, stored, reply]
transfer_result(vets, st, sender_id, selected_user_id, amount) ==
    IF amount <= 0
    THEN [veterans |-> vets, stored |-> st, reply |-> "Amount must be positive."]
    ELSE IF selected_user_id = NoUser
    THEN [veterans |-> vets, stored |-> st, reply |-> "Pick a recipient first."]
    ELSE IF selected_user_id = sender_id
    THEN [veterans |-> vets, stored |-> st, reply |-> "You can't send coins to yourself."]
    ELSE IF sender_id \notin DOMAIN vets \/ selected_user_id \notin DOMAIN vets
    THEN [veterans |-> vets, stored |-> st,
          reply |-> "Both sender and recipient must be veterans."]
    ELSE LET today == date_today(now)
             sender == vets[sender_id]
             receiver == vets[selected_user_id]
         IN  IF ~can_send(sender, amount, config, today)
             THEN [veterans |-> [vets EXCEPT ![sender_id] = reset_daily_limit(sender, today)],
                   stored |-> st,
                   reply |-> "Insufficient funds or daily limit reached"]
             ELSE LET after == [vets EXCEPT
                                  ![sender_id] = record_send(sender, amount, today),
                                  ![selected_user_id] = receive(receiver, amount)]
                  IN  [veterans |-> ensure_garden_panel(after, roleMembers, config, now),
                       stored |-> save_all(after),
                       reply |-> "Sent"]

perform_transfer(sender_id, selected_user_id, amount) ==
    /\ LET r == transfer_result(veterans, stored, sender_id, selected_user_id, amount)
       IN  /\ veterans' = r.veterans
           /\ stored' = r.stored
           /\ reply' = r.reply
    /\ UNCHANGED <<config, roleMembers, now, schedVars, hostVars>>

\* Transfer(a, b, amount) followed at once by Transfer(b, a, amount): a's
\* view with b picked, then b's view with a picked
transfer_round_trip(a, b, amount) ==
    /\ LET r1 == transfer_result(veterans, stored, a, b, amount)
           r2 == transfer_result(r1.veterans, r1.stored, b, a, amount)
       IN  /\ veterans' = r2.veterans
           /\ stored' = r2.stored
           /\ reply' = r2.reply
    /\ UNCHANGED <<config, roleMembers, now, schedVars, hostVars>>

\* daily_cb: the Daily Check-In button pressed by u
daily_streak_next(v, today) ==
    IF v.last_daily_claim = today - 1 THEN v.daily_streak + 1 ELSE 1

\* daily_claim whose bonus grows with the streak beyond daily_streak_cap
daily_claim_uncapped(v, today) ==
    LET streak == daily_streak_next(v, today)
    IN  [v EXCEPT !.daily_streak = streak,
                  !.coins = @ + daily_base_coins + daily_streak_bonus_coins * streak,
                  !.xp = @ + daily_base_xp + daily_streak_bonus_xp * streak,
                  !.last_daily_claim = today]

daily_claim(v, today) ==
    LET streak == daily_streak_next(v, today)
        bonus_c == daily_streak_bonus_coins * Min(streak, daily_streak_cap)
        bonus_x == daily_streak_bonus_xp * Min(streak, daily_streak_cap)
    IN  [v EXCEPT !.daily_streak = streak,
                  !.coins = @ + daily_base_coins + bonus_c,
                  !.xp = @ + daily_base_xp + bonus_x,
                  !.last_daily_claim = today]

\* daily_cb without the test of last_daily_claim against today
daily_cb_no_date_test(u) ==
    /\ u \in roleMembers
    /\ LET vs == GetOrCreate(veterans, u, config, now)
           after == [vs EXCEPT ![u] = daily_claim(vs[u], date_today(now))]
       IN  /\ after[u].coins <= MaxCoins
           /\ after[u].xp <= MaxXp
           /\ stored' = save_all(after)
           /\ veterans' = ensure_garden_panel(after, roleMembers, config, now)
           /\ reply' = "Daily"
    /\ UNCHANGED <<config, roleMembers, now, schedVars, hostVars>>

\* what one daily_cb call by u makes of the map and the file, up to the
\* first suspension of the callback: [veterans, stored, reply]
daily_result(vets, st, u) ==
    IF u \notin roleMembers
    THEN [veterans |-> vets, stored |-> st, reply |-> "Only veterans can check in."]
    ELSE LET vs == GetOrCreate(vets, u, config, now)
             today == date_today(now)
             after == [vs EXCEPT ![u] = daily_claim(vs[u], today)]
         IN  IF vs[u].last_daily_claim = today
             THEN [veterans |-> vs, stored |-> st, reply |-> "You've already claimed today."]
             ELSE [veterans |-> ensure_garden_panel(after, roleMembers, config, now),
                   stored |-> save_all(after),
                   reply |-> "Daily"]

daily_cb(u) ==
    /\ LET r == daily_result(veterans, stored, u)
       IN  /\ r.reply = "Daily" =>
                 (r.veterans[u].coins <= MaxCoins /\ r.veterans[u].xp <= MaxXp)
           /\ veterans' = r.veterans
           /\ stored' = r.stored
           /\ reply' = r.reply
    /\ UNCHANGED <<config, roleMembers, now, schedVars, hostVars>>

\* on_message: a message by u in a reward channel of the guild
\* message_reward without the cooldown test
message_reward_no_cooldown(v, cfg, t) ==
    add_xp_coins([v EXCEPT !.last_message_time = now_ts(t)],
                 cfg.xp_per_message, cfg.coins_per_message)

message_reward(v, cfg, t) ==
    IF now_ts(t) - v.last_message_time >= cfg.message_cooldown_seconds
    THEN add_xp_coins([v EXCEPT !.last_message_time = now_ts(t)],
                      cfg.xp_per_message, cfg.coins_per_message)
    ELSE v

message_count(v, today_local) ==
    LET r == IF v.last_message_day_local # today_local
             THEN [v EXCEPT !.last_message_day_local = today_local, !.messages_today = 0]
             ELSE v
    IN  [r EXCEPT !.messages_today = @ + 1]

on_message(u) ==
    /\ u \in roleMembers
    /\ LET vs == GetOrCreate(veterans, u, config, now)
           v == message_count(message_reward(vs[u], config, now), local_date(now))
           after == [vs EXCEPT ![u] = v]
       IN  /\ v.messages_today <= MaxMessages
           /\ v.coins <= MaxCoins /\ v.coins >= -MaxCoins
           /\ v.xp <= MaxXp /\ v.xp >= -MaxXp
           /\ veterans' = after
           /\ stored' = save_all(after)
    /\ UNCHANGED <<config, roleMembers, now, reply, schedVars, hostVars>>

\* /give_coins member amount
give_coins(member, amount) ==
    /\ IF amount <= 0
       THEN /\ reply' = "Amount must be positive."
            /\ UNCHANGED <<veterans, stored>>
       ELSE LET vs == GetOrCreate(veterans, member, config, now)
                after == [vs EXCEPT ![member].coins = @ + amount]
            IN  /\ after[member].coins <= MaxCoins
                /\ stored' = save_all(after)
                /\ veterans' = ensure_garden_panel(after, roleMembers, config, now)
                /\ reply' = "Gave coins"
    /\ UNCHANGED <<config, roleMembers, now, schedVars, hostVars>>

\* /set_economy water_cost plant_max_water xp_per_message coins_per_message cooldown
set_economy(water_cost, plant_max_water, xp_per_message, coins_per_message, cooldown) ==
    /\ config' = [config EXCEPT !.water_cost = water_cost,
                                !.plant_max_water = plant_max_water,
                                !.xp_per_message = xp_per_message,
                                !.coins_per_message = coins_per_message,
                                !.message_cooldown_seconds = cooldown]
    /\ reply' = "Economy settings updated."
    /\ UNCHANGED <<veterans, stored, roleMembers, now, schedVars, hostVars>>

\* /set_degrade interval_minutes decrease_amount
set_degrade(interval_minutes, decrease_amount) ==
    /\ config' = [config EXCEPT !.water_decrease_interval_minutes = interval_minutes,
                                !.water_decrease_amount = decrease_amount]
    /\ reply' = "Degrade settings updated."
    /\ UNCHANGED <<veterans, stored, roleMembers, now, schedVars, hostVars>>

\* /set_limits max_send_per_day daily_min_messages
set_limits(max_send_per_day, daily_min_messages) ==
    /\ config' = [config EXCEPT !.max_coins_send_per_day = max_send_per_day,
                                !.daily_min_messages = daily_min_messages]
    /\ reply' = "Limits updated."
    /\ UNCHANGED <<veterans, stored, roleMembers, now, schedVars, hostVars>>

---------------------------------------------------------------------------
(* Background task state while no iteration is suspended *)

IdleDegrade ==
    [pc |-> "idle", rest |-> <<>>, uid |-> NoUser, changed |-> FALSE,
     detached |-> <<>>, ended |-> ""]

\* no render_bar call yet
NoBar == [current |-> 0, maximum |-> 0, width |-> 0, filled |-> -1]

\* no interaction handler is suspended for the user
IdleHandler == [kind |-> "", pc |-> "idle", reply |-> ""]

NoGuild == "none"

\* polled: the time of the last poll of daily_warning_task in this run of
\* the process; iteration counts the iterations that reached the guilds
IdleWarning ==
    [pc |-> "idle", guild |-> NoGuild, rest |-> <<>>, chans |-> <<>>,
     today |-> NoDate, low |-> FALSE, polled |-> NoTime, iteration |-> 0]

\* nothing has reached the guild: iteration is the iteration that sent the
\* last daily message, date the local date of its poll, polls the number
\* of iterations polled on that date that sent one
NoWarning == [date |-> NoDate, iteration |-> 0, polls |-> 0]

\* polled: the time of the last poll inside the window; processed: the local
\* date of the last iteration that ran to its end
IdleSurvival ==
    [pc |-> "idle", to_remove |-> {}, rest |-> <<>>, polled |-> NoTime,
     processed |-> NoDate, ended |-> ""]

---------------------------------------------------------------------------
(* Admin maintenance commands and membership resync *)

\* a suspended degrade_task iteration holds the objects of its snapshot:
\* when u is taken out of the map meanwhile, the iteration keeps u's old object
Detach(run, vets, removed) ==
    IF run.pc # "revoking" THEN run
    ELSE LET gone == { u \in removed \cap DOMAIN vets :
                         /\ \E i \in 1..Len(run.rest) : run.rest[i] = u
                         /\ u \notin DOMAIN run.detached }
         IN  [run EXCEPT !.detached =
                 [u \in DOMAIN run.detached \cup gone |->
                     IF u \in gone THEN vets[u] ELSE run.detached[u]]]

\* /revive that also starts the member's xp and coins over
revive_resets_xp(member) ==
    /\ LET vs == GetOrCreate(veterans, member, config, now)
           after == [vs EXCEPT ![member].water_level = config.plant_max_water,
                               ![member].plant_start = now_ts(now),
                               ![member].xp = 0,
                               ![member].coins = 0]
       IN  /\ stored' = save_all(after)
           /\ veterans' = ensure_garden_panel(after, roleMembers, config, now)
    /\ reply' = "Revived"
    /\ UNCHANGED <<config, roleMembers, now, schedVars, hostVars>>

\* /revive member
revive(member) ==
    /\ LET vs == GetOrCreate(veterans, member, config, now)
           after == [vs EXCEPT ![member].water_level = config.plant_max_water,
                               ![member].plant_start = now_ts(now)]
       IN  /\ stored' = save_all(after)
           /\ veterans' = ensure_garden_panel(after, roleMembers, config, now)
    /\ reply' = "Revived"
    /\ UNCHANGED <<config, roleMembers, now, schedVars, hostVars>>

\* the guilds the bot serves; the configured veteran role is a role of
\* RoleGuild, and guild.get_role(role_id) is None in any other guild
Guilds == {"g1", "g2"}
RoleGuild == "g1"

\* resync_guild_veterans that takes a guild without the role as a guild
\* in which nobody holds it
resync_guild_veterans_any_guild(guild) ==
    /\ LET should == IF guild = RoleGuild THEN roleMembers ELSE {}
           added == [x \in DOMAIN veterans \cup should |->
                       IF x \in DOMAIN veterans THEN veterans[x]
                       ELSE NewVeteran(config, now)]
           after == Remove(added, DOMAIN added \ should)
       IN  /\ veterans' = after
           /\ stored' = save_all(after)
           /\ degradeRun' = Detach(degradeRun, veterans, DOMAIN veterans \ should)
    /\ UNCHANGED <<config, roleMembers, now, reply, degradeLast, degradeDied, survivalRun, hostVars>>

\* resync_guild_veterans(guild): veteran_scan_task for every guild,
\* /resync_veterans
resync_guild_veterans(guild) ==
    /\ IF guild # RoleGuild
       THEN UNCHANGED <<veterans, stored, degradeRun>>
       ELSE LET should == roleMembers
                added == [x \in DOMAIN veterans \cup should |->
                            IF x \in DOMAIN veterans THEN veterans[x]
                            ELSE NewVeteran(config, now)]
                after == Remove(added, DOMAIN added \ should)
            IN  /\ veterans' = ensure_garden_panel(after, roleMembers, config, now)
                /\ stored' = save_all(after)
                /\ degradeRun' = Detach(degradeRun, veterans, DOMAIN veterans \ should)
    /\ UNCHANGED <<config, roleMembers, now, reply, degradeLast, degradeDied, survivalRun, hostVars>>

---------------------------------------------------------------------------
(* degrade_task: polled every minute.  The iteration is suspended only in *)
(* member.remove_roles for a participant whose plant died.                *)

MaxDeaths == 2

\* the for loop from the head of rest up to the next dead plant:
\* [vets, uid (NoUser when the loop ended), rest]
RECURSIVE degrade_loop(_, _, _, _)
degrade_loop(vets, rest, detached, cfg) ==
    IF rest = <<>> THEN [vets |-> vets, uid |-> NoUser, rest |-> <<>>]
    ELSE LET uid == Head(rest)
         IN  IF uid \in DOMAIN detached
             THEN IF is_alive(degrade(detached[uid], cfg))
                  THEN degrade_loop(vets, Tail(rest), detached, cfg)
                  ELSE [vets |-> vets, uid |-> uid, rest |-> Tail(rest)]
             ELSE LET after == [vets EXCEPT ![uid] = degrade(vets[uid], cfg)]
                  IN  IF is_alive(after[uid])
                      THEN degrade_loop(after, Tail(rest), detached, cfg)
                      ELSE [vets |-> after, uid |-> uid, rest |-> Tail(rest)]

\* the orders in which list(self.veterans.items()) can list the set S
Orders(S) == { q \in [1..Cardinality(S) -> S] : \A i, j \in 1..Cardinality(S) : q[i] = q[j] => i = j }

\* the iteration goes on after the loop reached r: suspended for r.uid, or
\* at its end, where a change is saved and the panels are rebuilt
degrade_continue(r, changed, detached, members) ==
    IF r.uid # NoUser
    THEN /\ degradeDied[r.uid] < MaxDeaths
         /\ degradeDied' = [degradeDied EXCEPT ![r.uid] = @ + 1]
         /\ degradeRun' = [pc |-> "revoking", rest |-> r.rest, uid |-> r.uid,
                           changed |-> changed, detached |-> detached, ended |-> ""]
         /\ veterans' = r.vets
         /\ UNCHANGED stored
    ELSE /\ degradeRun' = [IdleDegrade EXCEPT !.ended = "completed"]
         /\ UNCHANGED degradeDied
         /\ IF changed
            THEN /\ stored' = save_all(r.vets)
                 /\ veterans' = ensure_garden_panel(r.vets, members, config, now)
            ELSE /\ veterans' = r.vets
                 /\ UNCHANGED stored

\* the interval test of one poll at time t
degrade_due(t, last, cfg) ==
    ~(now_ts(t) - last < cfg.water_decrease_interval_minutes * SecondsPerMinute)

degrade_task_poll ==
    /\ degradeRun.pc = "idle"
    /\ IF degradeLast = NoTime
       THEN /\ degradeLast' = now_ts(now)
            /\ UNCHANGED <<veterans, stored, degradeRun, degradeDied>>
       ELSE /\ degrade_due(now, degradeLast, config)
            /\ degradeLast' = now_ts(now)
            /\ \E order \in Orders(DOMAIN veterans) :
                  degrade_continue(degrade_loop(veterans, order, <<>>, config),
                                   FALSE, <<>>, roleMembers)
    /\ UNCHANGED <<config, roleMembers, now, reply, survivalRun, hostVars>>

\* member.remove_roles returns: the role is removed ("removed"), or
\* discord.Forbidden is raised and swallowed ("forbidden")
degrade_task_resume(outcome) ==
    /\ degradeRun.pc = "revoking"
    /\ outcome \in {"removed", "forbidden"}
    /\ roleMembers' = IF outcome = "removed" THEN roleMembers \ {degradeRun.uid} ELSE roleMembers
    /\ IF degradeRun.uid \notin DOMAIN veterans
       THEN \* del self.veterans[uid] raises KeyError: the task ends
            /\ degradeRun' = [IdleDegrade EXCEPT !.pc = "stopped", !.ended = "raised"]
            /\ UNCHANGED <<veterans, stored, degradeDied>>
       ELSE degrade_continue(
                degrade_loop(Remove(veterans, {degradeRun.uid}), degradeRun.rest,
                             degradeRun.detached, config),
                TRUE, degradeRun.detached, roleMembers')
    /\ UNCHANGED <<config, now, reply, degradeLast, survivalRun, hostVars>>

\* member.remove_roles raises another error (discord.HTTPException,
\* discord.NotFound, a connection error): it leaves degrade_task, whose
\* loop retries the iteration at a later poll (connection errors) or ends
degrade_task_raise(retried) ==
    /\ degradeRun.pc = "revoking"
    /\ degradeRun' = [IdleDegrade EXCEPT !.pc = IF retried THEN "idle" ELSE "stopped",
                                         !.ended = "raised"]
    /\ UNCHANGED <<veterans, stored, config, roleMembers, now, reply,
                   degradeLast, degradeDied, survivalRun, hostVars>>

---------------------------------------------------------------------------
(* daily_survival_task: polled every 5 minutes.  The iteration is          *)
(* suspended in member.remove_roles for each flagged participant, and in   *)
(* the announcement that precedes the rebuild of the panels.               *)

SurvivalWindowMinutes == 10
SurvivalPollMinutes == 5

\* now_local.hour == 0 and now_local.minute < 10
in_survival_window(t) == local_minute_of_day(t) < SurvivalWindowMinutes

\* the test of line 1055 on one participant
survival_flagged(v, yesterday, min_msgs) ==
    v.last_message_day_local # yesterday \/ v.messages_today < min_msgs

to_remove_of(vets, yesterday, min_msgs) ==
    { u \in DOMAIN vets : survival_flagged(vets[u], yesterday, min_msgs) }

\* the iteration is over without an error on the local date of time t
survival_done(run, t) ==
    [IdleSurvival EXCEPT !.polled = run.polled, !.processed = local_date(t),
                         !.ended = "completed"]

\* lines 1072-1074: the flagged participants are popped and the map saved
survival_pop(run) ==
    LET after == Remove(veterans, run.to_remove)
    IN  /\ veterans' = after
        /\ stored' = save_all(after)
        /\ degradeRun' = Detach(degradeRun, veterans, run.to_remove)
        /\ survivalRun' = IF config.garden_channel_id = 0
                          THEN survival_done(run, now)
                          ELSE [run EXCEPT !.pc = "announcing", !.rest = <<>>]

daily_survival_task_poll ==
    /\ survivalRun.pc = "idle"
    /\ survivalRun.polled = NoTime \/ now - survivalRun.polled >= SurvivalPollMinutes
    /\ in_survival_window(now)
    /\ LET min_msgs == config.daily_min_messages
           yesterday == local_date(now) - 1
           to_remove == to_remove_of(veterans, yesterday, min_msgs)
           run == [survivalRun EXCEPT !.polled = now]
       IN  IF to_remove = {}
           THEN /\ survivalRun' = survival_done(run, now)
                /\ UNCHANGED <<veterans, stored, degradeRun>>
           ELSE \E order \in Orders(to_remove) :
                   /\ survivalRun' = [run EXCEPT !.pc = "revoking", !.to_remove = to_remove,
                                                 !.rest = order, !.ended = ""]
                   /\ UNCHANGED <<veterans, stored, degradeRun>>
    /\ UNCHANGED <<config, roleMembers, now, reply, degradeLast, degradeDied, hostVars>>

\* member.remove_roles returns for the head of rest ("removed"), or raises
\* discord.Forbidden, which is swallowed ("forbidden")
daily_survival_task_resume(outcome) ==
    /\ survivalRun.pc = "revoking"
    /\ outcome \in {"removed", "forbidden"}
    /\ roleMembers' = IF outcome = "removed"
                      THEN roleMembers \ {Head(survivalRun.rest)} ELSE roleMembers
    /\ IF Tail(survivalRun.rest) # <<>>
       THEN /\ survivalRun' = [survivalRun EXCEPT !.rest = Tail(@)]
            /\ UNCHANGED <<veterans, stored, degradeRun>>
       ELSE survival_pop(survivalRun)
    /\ UNCHANGED <<config, now, reply, degradeLast, degradeDied, hostVars>>

\* member.remove_roles raises another error: it leaves daily_survival_task
\* before anybody is popped; the loop retries at a later poll or ends
daily_survival_task_raise(retried) ==
    /\ survivalRun.pc = "revoking"
    /\ survivalRun' = [IdleSurvival EXCEPT !.pc = IF retried THEN "idle" ELSE "stopped",
                                           !.polled = survivalRun.polled,
                                           !.processed = survivalRun.processed,
                                           !.ended = "raised"]
    /\ UNCHANGED <<veterans, stored, config, roleMembers, now, reply,
                   degradeLast, degradeRun, degradeDied, hostVars>>

\* after the announcement: ensure_garden_panel for the guild
daily_survival_task_finish ==
    /\ survivalRun.pc = "announcing"
    /\ veterans' = ensure_garden_panel(veterans, roleMembers, config, now)
    /\ survivalRun' = survival_done(survivalRun, now)
    /\ UNCHANGED <<stored, config, roleMembers, now, reply,
                   degradeLast, degradeRun, degradeDied, hostVars>>

---------------------------------------------------------------------------
(* daily_warning_task: polled every 5 minutes.  The iteration is suspended *)
(* in ch.send for each reward channel of a guild it writes to; the date is *)
(* recorded for the guild, and config.json saved, after the last of them.  *)

WarningWindowMinutes == 5
WarningPollMinutes == 5
MinutesPerHour == 60

\* the text channels: c1, c2 and c4 belong to the guild of the veteran
\* role, c3 to the other guild; the bot may not write in c4
Channels == {"c1", "c2", "c3", "c4"}

channel_guild(c) == IF c = "c3" THEN "g2" ELSE RoleGuild

\* perms.send_messages of the bot in the channel
send_messages(c) == c # "c4"

\* now_local.hour == target_hour and now_local.minute < 5
in_warning_window(t, cfg) ==
    /\ local_minute_of_day(t) \div MinutesPerHour = cfg.daily_warning_hour_local
    /\ local_minute_of_day(t) % MinutesPerHour < WarningWindowMinutes

\* the list low of lines 1018-1021 is not empty
low_water(vets, members, cfg) ==
    \E m \in members :
        m \in DOMAIN vets /\ vets[m].water_level <= cfg.low_water_threshold

\* warning_loop that does not look at the date recorded for the guild
RECURSIVE warning_loop_no_date_test(_, _, _, _, _, _)
warning_loop_no_date_test(rest, last, cfg, today, vets, members) ==
    IF rest = <<>>
    THEN [guild |-> NoGuild, chans |-> <<>>, rest |-> <<>>, last |-> last, low |-> FALSE]
    ELSE LET g == Head(rest)
         IN  IF g # RoleGuild
             THEN warning_loop_no_date_test(Tail(rest), last, cfg, today, vets, members)
             ELSE LET chans == SelectSeq(cfg.reward_channel_ids,
                                         LAMBDA c : channel_guild(c) = g /\ send_messages(c))
                  IN  IF chans = <<>>
                      THEN warning_loop_no_date_test(Tail(rest), [last EXCEPT ![g] = today],
                                                     cfg, today, vets, members)
                      ELSE [guild |-> g, chans |-> chans, rest |-> Tail(rest),
                            last |-> last, low |-> low_water(vets, members, cfg)]

\* the for loop over the guilds from the head of rest up to the first
\* ch.send: [guild (NoGuild when the loop ended), chans, rest, last, low]
RECURSIVE warning_loop(_, _, _, _, _, _)
warning_loop(rest, last, cfg, today, vets, members) ==
    IF rest = <<>>
    THEN [guild |-> NoGuild, chans |-> <<>>, rest |-> <<>>, last |-> last, low |-> FALSE]
    ELSE LET g == Head(rest)
         IN  IF last[g] = today \/ g # RoleGuild
             THEN warning_loop(Tail(rest), last, cfg, today, vets, members)
             ELSE LET chans == SelectSeq(cfg.reward_channel_ids,
                                         LAMBDA c : channel_guild(c) = g /\ send_messages(c))
                  IN  IF chans = <<>>
                      THEN warning_loop(Tail(rest), [last EXCEPT ![g] = today],
                                        cfg, today, vets, members)
                      ELSE [guild |-> g, chans |-> chans, rest |-> Tail(rest),
                            last |-> last, low |-> low_water(vets, members, cfg)]

\* the iteration goes on after the loop reached r: suspended in the first
\* ch.send of r.guild, or at its end; the dates recorded on the way are in
\* self.config and in config.json (lines 1037-1038)
warning_continue(r, today, polled, iteration) ==
    /\ config' = [config EXCEPT !.daily_warning_last = r.last]
    /\ warnRun' = IF r.guild = NoGuild
                  THEN [IdleWarning EXCEPT !.polled = polled, !.iteration = iteration]
                  ELSE [pc |-> "sending", guild |-> r.guild, rest |-> r.rest,
                        chans |-> r.chans, today |-> today, low |-> r.low,
                        polled |-> polled, iteration |-> iteration]

daily_warning_task_poll ==
    /\ warnRun.pc = "idle"
    /\ warnRun.polled = NoTime \/ now - warnRun.polled >= WarningPollMinutes
    /\ IF config.reward_channel_ids = <<>> \/ ~in_warning_window(now, config)
       THEN /\ warnRun' = [warnRun EXCEPT !.polled = now]
            /\ UNCHANGED config
       ELSE \E order \in Orders(Guilds) :
               LET r == warning_loop(order, config.daily_warning_last, config,
                                     local_date(now), veterans, roleMembers)
                   acted == r.guild # NoGuild \/ r.last # config.daily_warning_last
               IN  warning_continue(r, local_date(now), now,
                                    IF acted THEN warnRun.iteration + 1
                                    ELSE warnRun.iteration)
    /\ UNCHANGED <<veterans, stored, roleMembers, now, reply, schedVars,
                   boot, disk, saveRun, panel, bar, handlerRun, warnLog>>

\* the daily message of iteration i, polled on local date d, has reached
\* guild g
warning_logged(log, g, d, i) ==
    [log EXCEPT ![g] =
        IF @.date = d /\ @.iteration = i THEN @
        ELSE [date |-> d, iteration |-> i,
              polls |-> IF @.date = d THEN @.polls + 1 ELSE 1]]

\* ch.send returns for the head of chans: the message is in the channel
\* ("sent"), or the call raised and the error was swallowed ("failed")
daily_warning_task_resume(outcome) ==
    /\ warnRun.pc = "sending"
    /\ outcome \in {"sent", "failed"}
    /\ warnLog' = IF outcome = "sent"
                  THEN warning_logged(warnLog, warnRun.guild, warnRun.today,
                                      warnRun.iteration)
                  ELSE warnLog
    /\ IF Tail(warnRun.chans) # <<>>
       THEN /\ warnRun' = [warnRun EXCEPT !.chans = Tail(@)]
            /\ UNCHANGED config
       ELSE warning_continue(
                warning_loop(warnRun.rest,
                             [config.daily_warning_last EXCEPT
                                 ![warnRun.guild] = warnRun.today],
                             config, warnRun.today, veterans, roleMembers),
                warnRun.today, warnRun.polled, warnRun.iteration)
    /\ UNCHANGED <<veterans, stored, roleMembers, now, reply, schedVars,
                   boot, disk, saveRun, panel, bar, handlerRun>>

\* /warnings enabled hour
warnings(enabled, hour) ==
    /\ config' = [config EXCEPT !.warn_ping_veteran_role = IF enabled THEN 1 ELSE 0,
                                !.daily_warning_hour_local = hour]
    /\ reply' = "Warning settings updated."
    /\ UNCHANGED <<veterans, stored, roleMembers, now, schedVars, hostVars>>

\* /rewards_add channel: list(ids) of a set comes in any order
rewards_add(channel) ==
    /\ LET ids == { config.reward_channel_ids[i] :
                      i \in 1..Len(config.reward_channel_ids) } \cup {channel}
       IN  \E listed \in Orders(ids) :
              config' = [config EXCEPT !.reward_channel_ids = listed]
    /\ reply' = "Added reward channel"
    /\ UNCHANGED <<veterans, stored, roleMembers, now, schedVars, hostVars>>

\* the bot is closed while no iteration of a background task is under way
\* and started again: self.config and self.veterans are loaded from
\* config.json and data.json, and every task loop starts with a poll
bot_restart ==
    /\ boot = "running"
    /\ warnRun.pc = "idle" /\ degradeRun.pc = "idle" /\ survivalRun.pc = "idle"
    /\ saveRun.pc = "idle"
    /\ \A u \in Users : handlerRun[u].pc = "idle"
    /\ veterans' = stored
    /\ warnRun' = [IdleWarning EXCEPT !.iteration = warnRun.iteration]
    /\ degradeLast' = NoTime
    /\ survivalRun' = [survivalRun EXCEPT !.polled = NoTime]
    /\ UNCHANGED <<stored, config, roleMembers, now, reply, degradeRun, degradeDied,
                   boot, disk, saveRun, panel, bar, handlerRun, warnLog>>

---------------------------------------------------------------------------
(* Environment *)

\* an admin gives u the veteran role, or takes it away
grant_role(u) ==
    /\ u \notin roleMembers
    /\ roleMembers' = roleMembers \cup {u}
    /\ UNCHANGED <<veterans, stored, config, now, reply, schedVars, hostVars>>

revoke_role(u) ==
    /\ u \in roleMembers
    /\ roleMembers' = roleMembers \ {u}
    /\ UNCHANGED <<veterans, stored, config, now, reply, schedVars, hostVars>>

\* the clock moves on to a later instant t
AdvanceTime(t) ==
    /\ t > now
    /\ now' = t
    /\ UNCHANGED <<veterans, stored, config, roleMembers, reply, schedVars, hostVars>>

---------------------------------------------------------------------------
(* Persistence: load_json, save_json, save_all and the load of             *)
(* VeteranBot.__init__.  A file is a sequence of chunks of JSON text: the  *)
(* opening brace, one chunk per entry, the closing brace.                  *)

NoFile == [exists |-> FALSE, text |-> <<>>]

FileOf(text) == [exists |-> TRUE, text |-> text]

OpenChunk == [tok |-> "open"]
CloseChunk == [tok |-> "close"]
EntryChunk(key, value) == [tok |-> "entry", key |-> key, value |-> value]

\* JSON values of an entry: an object with its fields, or something else
JsonObject(fields) == [json |-> "object", fields |-> fields]
JsonNumber == [json |-> "number"]
JsonNull == [json |-> "null"]

\* the user ids in ascending order; self.veterans.items() of save_all
\* lists the participants in this order
UserOrder == <<"u1", "u2", "u3", "u4", "u5", "u6">>

\* the decimal texts of the user ids
KeyOrder == <<"1", "2", "3", "4", "5", "6">>

\* the place of a user id in the ascending order of the ids
id_rank(u) == CHOOSE i \in 1..Len(UserOrder) : UserOrder[i] = u

\* str(uid) of save_all
str_uid(u) == KeyOrder[id_rank(u)]

\* int(uid_str): the user id, NoUser where int raises ValueError
int_uid(text) ==
    IF \E i \in 1..Len(KeyOrder) : KeyOrder[i] = text
    THEN UserOrder[CHOOSE i \in 1..Len(KeyOrder) : KeyOrder[i] = text]
    ELSE NoUser

\* to_dict without the key daily_streak
to_dict_no_streak(v) ==
    [ coins |-> v.coins,
      xp |-> v.xp,
      plant_start |-> v.plant_start,
      water_level |-> v.water_level,
      last_message_time |-> v.last_message_time,
      coins_sent_today |-> v.coins_sent_today,
      last_coins_reset |-> v.last_coins_reset,
      last_daily_claim |-> v.last_daily_claim,
      last_lb_refresh |-> v.last_lb_refresh,
      messages_today |-> v.messages_today,
      last_message_day_local |-> v.last_message_day_local ]

\* VeteranData.to_dict: the twelve persisted fields under their names
to_dict(v) ==
    [ coins |-> v.coins,
      xp |-> v.xp,
      plant_start |-> v.plant_start,
      water_level |-> v.water_level,
      last_message_time |-> v.last_message_time,
      coins_sent_today |-> v.coins_sent_today,
      last_coins_reset |-> v.last_coins_reset,
      last_daily_claim |-> v.last_daily_claim,
      daily_streak |-> v.daily_streak,
      last_lb_refresh |-> v.last_lb_refresh,
      messages_today |-> v.messages_today,
      last_message_day_local |-> v.last_message_day_local ]

\* the fields that hold a date as text (isoformat, "" for no date); the
\* other fields hold numbers
DateFields ==
    {"last_coins_reset", "last_daily_claim", "last_lb_refresh", "last_message_day_local"}

\* the decimal digits of a natural number, most significant first
RECURSIVE Digits(_)
Digits(n) == IF n < 10 THEN <<n>> ELSE Append(Digits(n \div 10), n % 10)

\* the natural number written by a sequence of decimal digits
RECURSIVE digits_value(_)
digits_value(ds) ==
    IF ds = <<>> THEN 0
    ELSE 10 * digits_value(SubSeq(ds, 1, Len(ds) - 1)) + ds[Len(ds)]

\* json.dump of one value of a dict: a number as its sign and digits, a
\* date text as a string
json_value(name, x) ==
    IF name \in DateFields THEN [json |-> "string", date |-> x]
    ELSE [json |-> "number", negative |-> x < 0,
          digits |-> Digits(IF x < 0 THEN 0 - x ELSE x)]

\* json.load of one value
python_value(j) ==
    IF j.json = "string" THEN j.date
    ELSE IF j.negative THEN 0 - digits_value(j.digits) ELSE digits_value(j.digits)

\* json.dump and json.load of a dict of values
json_object(d) == JsonObject([k \in DOMAIN d |-> json_value(k, d[k])])

json_load_object(o) == [k \in DOMAIN o.fields |-> python_value(o.fields[k])]

\* data.get(name, default)
FieldOr(data, name, default) == IF name \in DOMAIN data THEN data[name] ELSE default

\* VeteranData(uid, data, config) for a dict data
VeteranData(data, cfg, t) ==
    [ coins |-> FieldOr(data, "coins", 0),
      xp |-> FieldOr(data, "xp", 0),
      plant_start |-> FieldOr(data, "plant_start", now_ts(t)),
      water_level |-> FieldOr(data, "water_level", cfg.plant_max_water),
      last_message_time |-> FieldOr(data, "last_message_time", 0),
      coins_sent_today |-> FieldOr(data, "coins_sent_today", 0),
      last_coins_reset |-> FieldOr(data, "last_coins_reset", date_today(t)),
      last_daily_claim |-> FieldOr(data, "last_daily_claim", NoDate),
      daily_streak |-> FieldOr(data, "daily_streak", 0),
      last_lb_refresh |-> FieldOr(data, "last_lb_refresh", NoDate),
      messages_today |-> FieldOr(data, "messages_today", 0),
      last_message_day_local |-> FieldOr(data, "last_message_day_local", NoDate) ]

\* json.dump of {str(uid): v.to_dict()}: the chunks of the whole text
json_dump(vets) ==
    LET listed == SelectSeq(UserOrder, LAMBDA u : u \in DOMAIN vets)
    IN  <<OpenChunk>>
        \o [i \in 1..Len(listed) |->
              EntryChunk(str_uid(listed[i]), json_object(to_dict(vets[listed[i]])))]
        \o <<CloseChunk>>

\* the text is a whole JSON object: json.load returns a dict
IsJsonObjectText(text) ==
    /\ Len(text) >= 2
    /\ text[1] = OpenChunk
    /\ text[Len(text)] = CloseChunk
    /\ \A i \in 2..(Len(text) - 1) : text[i].tok = "entry"

\* the text is a whole JSON document that is not an object (a list)
ArrayText == <<[tok |-> "array"]>>

\* load_json(path, {}): [dict, entries]; a missing file and a text that
\* json.load rejects give the default, the empty dict
load_json(file) ==
    IF ~file.exists THEN [dict |-> TRUE, entries |-> <<>>]
    ELSE IF IsJsonObjectText(file.text)
         THEN [dict |-> TRUE, entries |-> SubSeq(file.text, 2, Len(file.text) - 1)]
         ELSE IF file.text = ArrayText
              THEN [dict |-> FALSE, entries |-> <<>>]
              ELSE [dict |-> TRUE, entries |-> <<>>]

\* the for loop of lines 213-218 over data.items(): int(uid_str) raising
\* ValueError skips the entry; v.get on a value that is no dict raises
\* AttributeError, which nothing catches
RECURSIVE load_entries(_, _, _, _)
load_entries(entries, vets, cfg, t) ==
    IF entries = <<>> THEN [raised |-> FALSE, veterans |-> vets]
    ELSE LET e == Head(entries)
             uid == int_uid(e.key)
         IN  IF uid = NoUser
             THEN load_entries(Tail(entries), vets, cfg, t)
             ELSE IF e.value.json # "object"
                  THEN [raised |-> TRUE, veterans |-> vets]
                  ELSE load_entries(
                         Tail(entries),
                         [x \in DOMAIN vets \cup {uid} |->
                            IF x = uid THEN VeteranData(json_load_object(e.value), cfg, t)
                            ELSE vets[x]],
                         cfg, t)

\* VeteranBot.__init__, lines 211-218: the participants are loaded, or the
\* constructor is left by an exception
load_store ==
    /\ boot = "starting"
    /\ LET data == load_json(disk.data)
           r == IF data.dict THEN load_entries(data.entries, <<>>, config, now)
                ELSE [raised |-> TRUE, veterans |-> <<>>]
       IN  IF r.raised
           THEN /\ boot' = "aborted"
                /\ UNCHANGED veterans
           ELSE /\ boot' = "running"
                /\ veterans' = r.veterans
    /\ UNCHANGED <<stored, config, roleMembers, now, reply, schedVars,
                   disk, saveRun, panel, bar, handlerRun, warnRun, warnLog>>

\* no save_json call is under way; text and previous are those of the last
\* call, ended tells how it ended ("" before the first call)
IdleSave == [pc |-> "idle", text |-> <<>>, previous |-> NoFile, ended |-> ""]

\* save_all from a handler that left self.veterans as after: save_json is
\* entered with the dict to dump
save_json_enter(after) ==
    /\ boot = "running"
    /\ saveRun.pc = "idle"
    /\ saveRun' = [pc |-> "open", text |-> json_dump(after),
                   previous |-> disk.data, ended |-> ""]

\* save_json that opens the store file itself for writing
save_json_open_in_place ==
    /\ saveRun.pc = "open"
    /\ disk' = [disk EXCEPT !.data = FileOf(<<>>)]
    /\ saveRun' = [saveRun EXCEPT !.pc = "write"]
    /\ UNCHANGED <<veterans, stored, config, roleMembers, now, reply, schedVars,
                   boot, panel, bar, handlerRun, warnRun, warnLog>>

\* line 66, open(tmp, "w"): the temporary file is created or emptied
save_json_open ==
    /\ saveRun.pc = "open"
    /\ disk' = [disk EXCEPT !.tmp = FileOf(<<>>)]
    /\ saveRun' = [saveRun EXCEPT !.pc = "write"]
    /\ UNCHANGED <<veterans, stored, config, roleMembers, now, reply, schedVars,
                   boot, panel, bar, handlerRun, warnRun, warnLog>>

\* line 67, json.dump: the next chunk reaches the temporary file; after the
\* last one the with block closes the file
save_json_write ==
    /\ saveRun.pc = "write"
    /\ LET n == Len(disk.tmp.text)
       IN  IF n < Len(saveRun.text)
           THEN /\ disk' = [disk EXCEPT !.tmp.text = Append(@, saveRun.text[n + 1])]
                /\ UNCHANGED saveRun
           ELSE /\ saveRun' = [saveRun EXCEPT !.pc = "replace"]
                /\ UNCHANGED disk
    /\ UNCHANGED <<veterans, stored, config, roleMembers, now, reply, schedVars,
                   boot, panel, bar, handlerRun, warnRun, warnLog>>

\* line 68, os.replace(tmp, path): the store file becomes the temporary file
save_json_replace ==
    /\ saveRun.pc = "replace"
    /\ disk' = [data |-> disk.tmp, tmp |-> NoFile]
    /\ stored' = save_all(veterans)
    /\ saveRun' = [saveRun EXCEPT !.pc = "idle", !.ended = "replaced"]
    /\ UNCHANGED <<veterans, config, roleMembers, now, reply, schedVars,
                   boot, panel, bar, handlerRun, warnRun, warnLog>>

\* the process dies, inside save_json or outside: memory is lost, the files
\* stay as they are, and the bot is started again
process_crash ==
    /\ boot = "running"
    /\ boot' = "starting"
    /\ veterans' = <<>>
    /\ saveRun' = [saveRun EXCEPT !.pc = "idle",
                                  !.ended = IF saveRun.pc = "idle" THEN @ ELSE "crashed"]
    /\ UNCHANGED <<stored, config, roleMembers, now, reply, schedVars,
                   disk, panel, bar, handlerRun, warnRun, warnLog>>

\* /give_coins up to its save_all, whose save_json is followed step by step
give_coins_saving(member, amount) ==
    /\ amount > 0
    /\ LET vs == GetOrCreate(veterans, member, config, now)
           after == [vs EXCEPT ![member].coins = @ + amount]
       IN  /\ after[member].coins <= MaxCoins
           /\ veterans' = after
           /\ save_json_enter(after)
    /\ UNCHANGED <<stored, config, roleMembers, now, reply, schedVars,
                   boot, disk, panel, bar, handlerRun, warnRun, warnLog>>

---------------------------------------------------------------------------
(* Rendering: render_bar and the leaderboard embed *)

\* a float argument is given in halves: x2 stands for x2 / 2.
\* int(x): the fraction is cut off towards zero
int_of(x2) == IF x2 >= 0 THEN x2 \div 2 ELSE -((-x2) \div 2)

Max(a, b) == IF a >= b THEN a ELSE b

\* round(p / q) of Python 3 for p >= 0, q > 0: a tie goes to the even side
round_div(p, q) ==
    LET fl == p \div q
        twice == 2 * (p % q)
    IN  IF twice < q THEN fl
        ELSE IF twice > q THEN fl + 1
        ELSE IF fl % 2 = 0 THEN fl ELSE fl + 1

\* render_bar without the clamp of current into 0..maximum
render_bar_no_clamp(current2, maximum2, width) ==
    LET maximum == Max(1, int_of(maximum2))
        cur == int_of(current2)
    IN  IF cur >= 0 THEN round_div(cur * width, maximum)
        ELSE -round_div((-cur) * width, maximum)

\* render_bar(current, maximum, width): the number of filled cells
render_bar(current2, maximum2, width) ==
    LET maximum == Max(1, int_of(maximum2))
        cur == Max(0, Min(maximum, int_of(current2)))
    IN  round_div(cur * width, maximum)

\* one call of render_bar, as build_garden_embeds and
\* build_leaderboard_embed make it
render_bar_call(current2, maximum2, width) ==
    /\ bar' = [current |-> current2, maximum |-> maximum2, width |-> width,
               filled |-> render_bar(current2, maximum2, width)]
    /\ UNCHANGED <<veterans, stored, config, roleMembers, now, reply, schedVars,
                   boot, disk, saveRun, panel, handlerRun, warnRun, warnLog>>

LeaderboardSize == 5
LeaderboardBarWidth == 20

\* the resolution of now_ts(), in ticks per second
TicksPerSecond == 1000000

\* how far the clock may move on while sorted() computes its keys, in ticks
MaxClockTicks == 1

\* the readings of now_ts() by the n calls of age_days, one after the other
ClockReadings(n) ==
    { r \in [1..n -> 0..MaxClockTicks] : \A i, j \in 1..n : i <= j => r[i] <= r[j] }

\* the orders in which self.veterans.items() lists the map in the
\* leaderboard: every order of up to three participants; a larger map in
\* the ascending or the descending order of the ids
MaxPermuted == 3

Reverse(q) == [i \in 1..Len(q) |-> q[Len(q) + 1 - i]]

MapOrders(S) ==
    IF Cardinality(S) <= MaxPermuted THEN Orders(S)
    ELSE LET up == SelectSeq(UserOrder, LAMBDA u : u \in S)
         IN  {up, Reverse(up)}

\* key=lambda kv: (-kv[1].xp, -kv[1].age_days); the second part is
\* (plant_start - now_ts()) / 86400, kept in ticks with the part common to
\* all readings left out
sort_key(v, reading) == <<-v.xp, v.plant_start * TicksPerSecond - reading>>

KeyLess(a, b) == a[1] < b[1] \/ (a[1] = b[1] /\ a[2] < b[2])

\* sorted() is stable: an item goes behind the items that are not greater
RECURSIVE insert_sorted(_, _)
insert_sorted(out, item) ==
    IF out = <<>> THEN <<item>>
    ELSE IF KeyLess(item.key, Head(out).key) THEN <<item>> \o out
         ELSE <<Head(out)>> \o insert_sorted(Tail(out), item)

RECURSIVE sorted(_)
sorted(items) ==
    IF items = <<>> THEN <<>>
    ELSE insert_sorted(sorted(SubSeq(items, 1, Len(items) - 1)), items[Len(items)])

\* ranked[:5] that keeps the whole list
top_of_all(ranked) == ranked

\* ranked[:5]
top_of(ranked) == SubSeq(ranked, 1, Min(LeaderboardSize, Len(ranked)))

\* build_leaderboard_embed: the rows of the embed, [uid, xp, filled], for
\* the map listed in the given order and the given clock readings
build_leaderboard_embed(vets, order, readings) ==
    IF DOMAIN vets = {} THEN <<>>
    ELSE LET items == [i \in 1..Len(order) |->
                         [uid |-> order[i], key |-> sort_key(vets[order[i]], readings[i])]]
             top == top_of(sorted(items))
             top_xp == Max(vets[top[1].uid].xp, 1)
         IN  [i \in 1..Len(top) |->
                [uid |-> top[i].uid, xp |-> vets[top[i].uid].xp,
                 filled |-> render_bar(2 * vets[top[i].uid].xp, 2 * top_xp,
                                       LeaderboardBarWidth)]]

\* /leaderboard: the embed is posted in the channel
leaderboard ==
    /\ \E order \in MapOrders(DOMAIN veterans), readings \in ClockReadings(Cardinality(DOMAIN veterans)) :
          panel' = build_leaderboard_embed(veterans, order, readings)
    /\ UNCHANGED <<veterans, stored, config, roleMembers, now, reply, schedVars,
                   boot, disk, saveRun, bar, handlerRun, warnRun, warnLog>>

\* refresh_cb without the test of last_lb_refresh
refresh_cb_no_date_test(u) ==
    /\ u \in roleMembers
    /\ LET vs == GetOrCreate(veterans, u, config, now)
           today == date_today(now)
           after == [vs EXCEPT ![u].last_lb_refresh = today]
       IN  /\ veterans' = after
           /\ stored' = save_all(after)
           /\ reply' = "Refreshed"
           /\ \E order \in MapOrders(DOMAIN after),
                 readings \in ClockReadings(Cardinality(DOMAIN after)) :
                 panel' = build_leaderboard_embed(after, order, readings)
    /\ UNCHANGED <<config, roleMembers, now, schedVars,
                   boot, disk, saveRun, bar, handlerRun, warnRun, warnLog>>

\* refresh_cb: the Refresh button of the leaderboard, pressed by u
refresh_cb(u) ==
    /\ IF u \notin roleMembers
       THEN /\ reply' = "Only veterans can refresh."
            /\ UNCHANGED <<veterans, stored, panel>>
       ELSE LET vs == GetOrCreate(veterans, u, config, now)
                today == date_today(now)
                after == [vs EXCEPT ![u].last_lb_refresh = today]
            IN  IF vs[u].last_lb_refresh = today
                THEN /\ reply' = "You've already refreshed today."
                     /\ veterans' = vs
                     /\ UNCHANGED <<stored, panel>>
                ELSE /\ veterans' = after
                     /\ stored' = save_all(after)
                     /\ reply' = "Refreshed"
                     /\ \E order \in MapOrders(DOMAIN after),
                           readings \in ClockReadings(Cardinality(DOMAIN after)) :
                           panel' = build_leaderboard_embed(after, order, readings)
    /\ UNCHANGED <<config, roleMembers, now, schedVars,
                   boot, disk, saveRun, bar, handlerRun, warnRun, warnLog>>

---------------------------------------------------------------------------
(* The callbacks with their suspension points.  A callback runs without    *)
(* suspension from its start to its first await that yields (inside        *)
(* ensure_garden_panel, or the response); the other tasks run while it is  *)
(* suspended, and the response ends it.                                    *)

\* the callback of kind for user u runs up to its first suspension, where
\* it has made r of the map and the file
handler_start(u, kind, r) ==
    /\ handlerRun[u].pc = "idle"
    /\ veterans' = r.veterans
    /\ stored' = r.stored
    /\ handlerRun' = [handlerRun EXCEPT ![u] =
                         [kind |-> kind, pc |-> "responding", reply |-> r.reply]]

water_cb_start(u) ==
    /\ handler_start(u, "water", water_result(veterans, stored, u))
    /\ UNCHANGED <<config, roleMembers, now, reply, schedVars,
                   boot, disk, saveRun, panel, bar, warnRun, warnLog>>

daily_cb_start(u) ==
    /\ LET r == daily_result(veterans, stored, u)
       IN  /\ r.reply = "Daily" =>
                 (r.veterans[u].coins <= MaxCoins /\ r.veterans[u].xp <= MaxXp)
           /\ handler_start(u, "daily", r)
    /\ UNCHANGED <<config, roleMembers, now, reply, schedVars,
                   boot, disk, saveRun, panel, bar, warnRun, warnLog>>

\* perform_transfer that is suspended between record_send and receive
perform_transfer_start_debit_first(sender_id, selected_user_id, amount) ==
    /\ LET r == transfer_result(veterans, stored, sender_id, selected_user_id, amount)
       IN  handler_start(sender_id, "transfer",
              IF r.reply = "Sent"
              THEN [veterans |-> [veterans EXCEPT ![sender_id] =
                                     record_send(@, amount, date_today(now))],
                    stored |-> stored, reply |-> r.reply]
              ELSE r)
    /\ UNCHANGED <<config, roleMembers, now, reply, schedVars,
                   boot, disk, saveRun, panel, bar, warnRun, warnLog>>

perform_transfer_start(sender_id, selected_user_id, amount) ==
    /\ handler_start(sender_id, "transfer",
                     transfer_result(veterans, stored, sender_id, selected_user_id, amount))
    /\ UNCHANGED <<config, roleMembers, now, reply, schedVars,
                   boot, disk, saveRun, panel, bar, warnRun, warnLog>>

\* the rest of the callback of u: the panel message is edited and the
\* response is sent
handler_respond(u) ==
    /\ handlerRun[u].pc = "responding"
    /\ reply' = handlerRun[u].reply
    /\ handlerRun' = [handlerRun EXCEPT ![u] = IdleHandler]
    /\ UNCHANGED <<veterans, stored, config, roleMembers, now, schedVars,
                   boot, disk, saveRun, panel, bar, warnRun, warnLog>>

---------------------------------------------------------------------------
(* Initial states: VeteranBot.__init__ has loaded config.json and data.json *)

StartMinute == MinutesPerDay

DefaultConfig ==
    [ water_cost |-> DefaultWaterCost,
      plant_max_water |-> DefaultPlantMaxWater,
      water_decrease_interval_minutes |-> DefaultDecreaseIntervalMinutes,
      water_decrease_amount |-> DefaultDecreaseAmount,
      xp_per_message |-> DefaultXpPerMessage,
      coins_per_message |-> DefaultCoinsPerMessage,
      message_cooldown_seconds |-> DefaultCooldownSeconds,
      max_coins_send_per_day |-> DefaultMaxCoinsSendPerDay,
      daily_min_messages |-> DefaultDailyMinMessages,
      garden_channel_id |-> 0,
      reward_channel_ids |-> <<>>,
      low_water_threshold |-> DefaultLowWaterThreshold,
      daily_warning_hour_local |-> DefaultWarningHour,
      warn_ping_veteran_role |-> 1,
      daily_warning_last |-> [g \in Guilds |-> NoDate] ]

InitTasks ==
    /\ degradeLast = NoTime
    /\ degradeRun = IdleDegrade
    /\ degradeDied = [u \in Users |-> 0]
    /\ survivalRun = IdleSurvival

\* the bot runs and nothing else is under way; data.json is given by stored,
\* its text is followed only where save_json is taken step by step
InitHost ==
    /\ boot = "running"
    /\ disk = [data |-> NoFile, tmp |-> NoFile]
    /\ saveRun = IdleSave
    /\ panel = <<>>
    /\ bar = NoBar
    /\ handlerRun = [u \in Users |-> IdleHandler]
    /\ warnRun = IdleWarning
    /\ warnLog = [g \in Guilds |-> NoWarning]

\* a record of data.json written on the start day
StoredVeteran(coins, water_level, sent, reset_day) ==
    [NewVeteran(DefaultConfig, StartMinute) EXCEPT
        !.coins = coins, !.water_level = water_level,
        !.coins_sent_today = sent, !.last_coins_reset = reset_day]

\* u1 as stored: <<coins, coins_sent_today, last_coins_reset>>
CoinsSeeds == { <<15, 0, 1>>, <<30, 80, 1>> }

\* u2 holds the role; it is stored already, or has no entity yet
InitCoins ==
    /\ now = StartMinute
    /\ \E seed \in CoinsSeeds, pg \in {<<TRUE, 0>>, <<FALSE, 1>>} :
          LET v1 == StoredVeteran(seed[1], 40, seed[2], seed[3])
              v2 == StoredVeteran(0, DefaultPlantMaxWater, 0, 1)
          IN  /\ veterans = IF pg[1] THEN [u \in Users |-> IF u = "u1" THEN v1 ELSE v2]
                            ELSE [u \in {"u1"} |-> v1]
              /\ config = [DefaultConfig EXCEPT !.garden_channel_id = pg[2]]
    /\ stored = veterans
    /\ roleMembers = Users
    /\ reply = ""
    /\ InitTasks
    /\ InitHost

---------------------------------------------------------------------------
(* The coin economy: Maintain, Transfer and ClaimDaily over two days *)

Amounts == {20, 30}

DayStarts == {d * MinutesPerDay : d \in 1..MaxDay}

\* who opens the send view; the other participant is the recipient, and
\* waters and claims like the sender
Senders == {"u1"}

NextCoins ==
    \/ \E u \in Users : water_cb(u)
    \/ \E s \in Senders : \E r \in Users \ {s}, a \in Amounts : perform_transfer(s, r, a)
    \/ \E u \in Users : daily_cb(u)
    \/ \E t \in DayStarts : AdvanceTime(t)

SpecCoins == InitCoins /\ [][NextCoins]_vars

\* C1: under Maintain, Transfer and ClaimDaily calls by any participants,
\* started from stored balances >= 0, the coins of every participant in
\* the active set are >= 0 in every reachable state.
C1_CoinsNeverNegative ==
    \A u \in DOMAIN veterans : veterans[u].coins >= 0

\* a transfer has just taken the sender's whole balance
C1_Witness ==
    /\ reply = "Sent"
    /\ \E u \in DOMAIN veterans :
          veterans[u].coins = 0 /\ veterans[u].coins_sent_today > 0

\* C9: Maintain by a participant with coins < water_cost answers "Not
\* enough coins" and leaves coins and water_level as they were; with
\* coins >= water_cost it answers "Watered!", takes exactly water_cost and
\* sets water_level to plant_max_water.
C9_MaintainOutcome ==
    [][\A u \in Users :
        (u \in roleMembers /\ u \in DOMAIN veterans /\ water_cb(u)) =>
            IF veterans[u].coins < config.water_cost
            THEN /\ reply' = "Not enough coins"
                 /\ veterans'[u].coins = veterans[u].coins
                 /\ veterans'[u].water_level = veterans[u].water_level
            ELSE /\ reply' = "Watered!"
                 /\ veterans'[u].coins = veterans[u].coins - config.water_cost
                 /\ veterans'[u].water_level = config.plant_max_water]_vars

\* cost 10, max 100: u1 went from 15 coins to 5 with level 100, and the
\* next Maintain, at 5 coins, was refused
C9_Witness ==
    /\ config.water_cost = 10 /\ config.plant_max_water = 100
    /\ reply = "Not enough coins"
    /\ "u1" \in DOMAIN veterans
    /\ veterans["u1"].coins = 5
    /\ veterans["u1"].water_level = 100
    /\ stored["u1"].coins = 5

\* the amount sent on the current day, as reset_daily_limit reads it
SentToday(v, today) == IF v.last_coins_reset = today THEN v.coins_sent_today ELSE 0

\* C10: a Transfer succeeds only if the amount already sent on that day
\* plus the amount is within max_coins_send_per_day, it adds the amount to
\* coins_sent_today, and no participant's coins_sent_today ever exceeds
\* the cap (cap 100 and 80 sent: 30 is refused, 20 goes through and
\* leaves coins_sent_today = 100).
C10_DailyCap ==
    [][/\ \A u \in DOMAIN veterans' :
             veterans'[u].coins_sent_today <= config'.max_coins_send_per_day
       /\ \A s \in Users, r \in Users, a \in Amounts :
             LET sent == SentToday(veterans[s], date_today(now))
                 cap == config.max_coins_send_per_day
             IN  /\ (reply' = "Sent" /\ perform_transfer(s, r, a)) =>
                       /\ sent + a <= cap
                       /\ veterans'[s].coins_sent_today = sent + a
                 /\ ( /\ s # r /\ {s, r} \subseteq DOMAIN veterans
                      /\ cap = 100 /\ sent = 80 /\ veterans[s].coins >= 30
                      /\ perform_transfer(s, r, a) ) =>
                       /\ a = 30 => /\ reply' = "Insufficient funds or daily limit reached"
                                    /\ veterans'[s].coins = veterans[s].coins
                                    /\ veterans'[s].coins_sent_today = 80
                       /\ a = 20 => /\ reply' = "Sent"
                                    /\ veterans'[s].coins_sent_today = 100]_vars

\* a transfer has just brought the sender's amount of the day to the cap
C10_Witness ==
    /\ reply = "Sent"
    /\ \E u \in DOMAIN veterans :
          /\ veterans[u].coins_sent_today = config.max_coins_send_per_day
          /\ veterans[u].last_coins_reset = date_today(now)

---------------------------------------------------------------------------
(* Decay: degrade_task against watering, revival and tuning *)

MaxTicks == 2

\* <<water_level of u1, coins of u1, water_level of u2>> as stored
DecaySeeds == { <<1, 10, 2>> }

InitDecay ==
    /\ now = StartMinute
    /\ \E seed \in DecaySeeds, g \in {0, 1} :
          /\ veterans = [u \in Users |->
                           IF u = "u1" THEN StoredVeteran(seed[2], seed[1], 0, 1)
                           ELSE StoredVeteran(0, seed[3], 0, 1)]
          /\ config = [DefaultConfig EXCEPT !.garden_channel_id = g]
    /\ stored = veterans
    /\ roleMembers = Users
    /\ reply = ""
    /\ InitTasks
    /\ InitHost

DecayInstants == { StartMinute + k * DefaultDecreaseIntervalMinutes : k \in 1..MaxTicks }

DecayEconomySettings == { <<10, 100, 5, 2, 60>>, <<10, 50, 5, 2, 60>> }

DegradeSettings == { <<60, 1>>, <<30, 2>> }

NextDecay ==
    \/ degrade_task_poll
    \/ \E o \in {"removed", "forbidden"} : degrade_task_resume(o)
    \/ \E retried \in BOOLEAN : degrade_task_raise(retried)
    \/ \E u \in Users : water_cb(u)
    \/ \E u \in Users : revive(u)
    \/ \E e \in DecayEconomySettings : set_economy(e[1], e[2], e[3], e[4], e[5])
    \/ \E d \in DegradeSettings : set_degrade(d[1], d[2])
    \/ \E t \in DecayInstants : AdvanceTime(t)

SpecDecay == InitDecay /\ [][NextDecay]_vars

WaterInBounds(v, cfg) == 0 <= v.water_level /\ v.water_level <= cfg.plant_max_water

\* an applied decay tick ends in this step without an error
DecayTickCompletes ==
    /\ degradeRun'.pc = "idle"
    /\ degradeRun'.ended = "completed"
    /\ \/ degradeRun.pc = "revoking"
       \/ degradeRun.pc = "idle" /\ degradeLast # NoTime /\ degradeLast' # degradeLast

\* C2: 0 <= water_level <= plant_max_water holds for every participant of
\* the active set after every applied decay tick, and for the participant
\* who watered after every Maintain, whatever ticks, Maintain calls,
\* revivals, set_economy and set_degrade calls came before.
C2_WaterLevelBounded ==
    [][/\ DecayTickCompletes =>
             \A u \in DOMAIN veterans' : WaterInBounds(veterans'[u], config')
       /\ \A u \in Users :
             (u \in roleMembers /\ water_cb(u)) =>
                 WaterInBounds(veterans'[u], config')]_vars

\* C4: a participant whose water_level a decay tick brought to <= 0 is out
\* of the active set when that tick is over: while no tick is suspended,
\* so at the start of every tick, no participant of the active set has
\* water_level <= 0 (plant_max_water is positive in every state here, and
\* every stored level is, so only a decay tick produces such a level).
C4_NoDeadParticipantLeftOver ==
    degradeRun.pc # "revoking" =>
        \A u \in DOMAIN veterans : veterans[u].water_level > 0

\* C5: the "plant died" handling is entered for a participant only by the
\* tick that brings their level from above 0 to <= 0, so once per death
\* and never for somebody outside the active set, and when the handling
\* of a participant is over that participant's dead entity is out of the
\* active set.
C5_DiedExactlyOnce ==
    [][/\ \A u \in Users :
             degradeDied'[u] > degradeDied[u] =>
                 /\ u \in DOMAIN veterans
                 /\ veterans[u].water_level > 0
                 /\ degradeDied'[u] = degradeDied[u] + 1
       /\ (degradeRun.pc = "revoking" /\ degradeRun' # degradeRun) =>
             \/ degradeRun.uid \notin DOMAIN veterans'
             \/ veterans'[degradeRun.uid].water_level > 0]_vars

\* C6: when member.remove_roles fails for a dead participant, with
\* discord.Forbidden or with any other error, the tick does not end in
\* that error: the dead participant leaves the active set and the tick
\* goes on to the remaining participants.
C6_RevocationFailureDoesNotBlockRemoval ==
    [][(degradeRun.pc = "revoking"
        /\ (degrade_task_resume("forbidden") \/ \E b \in BOOLEAN : degrade_task_raise(b))) =>
            /\ degradeRun'.ended # "raised"
            /\ \/ degradeRun.uid \notin DOMAIN veterans'
               \/ veterans'[degradeRun.uid].water_level > 0]_vars

---------------------------------------------------------------------------
(* Rewards: chat rewards, daily check-in and admin gifts under /set_economy *)

\* one participant holds the role and is stored with nothing earned yet
InitRewards ==
    /\ now = StartMinute
    /\ veterans = [u \in {"u1"} |-> StoredVeteran(0, DefaultPlantMaxWater, 0, 1)]
    /\ config = DefaultConfig
    /\ stored = veterans
    /\ roleMembers = {"u1"}
    /\ reply = ""
    /\ InitTasks
    /\ InitHost

\* a minute later (the cooldown is over) and the starts of the next days
RewardInstants == {StartMinute + 1} \cup { d * MinutesPerDay : d \in 2..MaxDay }

RewardSettings == { <<10, 100, 5, 2, 60>>, <<10, 100, -5, 2, 60>> }

NextRewards ==
    \/ \E u \in Users : on_message(u)
    \/ \E u \in Users : daily_cb(u)
    \/ \E u \in Users, a \in {0, 10} : give_coins(u, a)
    \/ \E e \in RewardSettings : set_economy(e[1], e[2], e[3], e[4], e[5])
    \/ \E t \in RewardInstants : AdvanceTime(t)

SpecRewards == InitRewards /\ [][NextRewards]_vars

\* C3: no operation lowers the xp of a participant who stays in the
\* active set.
C3_XpNeverDecreases ==
    [][\A u \in DOMAIN veterans \cap DOMAIN veterans' :
          veterans'[u].xp >= veterans[u].xp]_vars

---------------------------------------------------------------------------
(* Survival: daily_survival_task around local midnight against chat *)

\* <<messages_today of u1, last_message_day_local of u2>> as stored on
\* local day 1; u1 counted on day 1, u2 reached the quota on that marker
SurvivalSeeds == { <<10, 1>>, <<9, 1>>, <<10, 0>> }

InitSurvival ==
    /\ now = StartMinute
    /\ \E seed \in SurvivalSeeds, g \in {0, 1} :
          /\ veterans = [u \in Users |->
                [StoredVeteran(0, DefaultPlantMaxWater, 0, 1) EXCEPT
                    !.messages_today = IF u = "u1" THEN seed[1] ELSE DefaultDailyMinMessages,
                    !.last_message_day_local = IF u = "u1" THEN 1 ELSE seed[2]]]
          /\ config = [DefaultConfig EXCEPT !.garden_channel_id = g]
    /\ stored = veterans
    /\ roleMembers = Users
    /\ reply = ""
    /\ InitTasks
    /\ InitHost

\* local midnight of local day d, in minutes of the clock
LocalMidnight(d) == d * MinutesPerDay - KarachiOffsetMinutes

SurvivalInstants ==
    { LocalMidnight(d) + m : d \in 2..MaxDay, m \in {-1, 2, 7, 12} }

NextSurvival ==
    \/ daily_survival_task_poll
    \/ \E o \in {"removed", "forbidden"} : daily_survival_task_resume(o)
    \/ \E retried \in BOOLEAN : daily_survival_task_raise(retried)
    \/ daily_survival_task_finish
    \/ \E u \in Users : on_message(u)
    \/ \E t \in SurvivalInstants : AdvanceTime(t)

SpecSurvival == InitSurvival /\ [][NextSurvival]_vars

\* a step of daily_survival_task
SurvivalStep ==
    \/ daily_survival_task_poll
    \/ \E o \in {"removed", "forbidden"} : daily_survival_task_resume(o)
    \/ \E retried \in BOOLEAN : daily_survival_task_raise(retried)
    \/ daily_survival_task_finish

\* C7: once an iteration of daily_survival_task has run to its end on a
\* local date, every later poll on that local date, and all it leads to,
\* removes no participant, revokes no role and writes nothing.
C7_SurvivalOncePerDate ==
    [][(survivalRun.processed = local_date(now) /\ SurvivalStep) =>
          UNCHANGED <<veterans, stored, roleMembers>>]_vars

\* C8: an iteration of daily_survival_task inside the window flags exactly
\* the participants whose last_message_day_local is not yesterday's local
\* date or whose messages_today is below daily_min_messages, and it ends
\* with exactly the flagged participants removed from the active set and
\* every other participant's fields as they were.
C8_SurvivalRemovesExactlyFlagged ==
    [][/\ (survivalRun.pc = "idle" /\ daily_survival_task_poll) =>
             LET flagged == { u \in DOMAIN veterans :
                                \/ veterans[u].last_message_day_local # local_date(now) - 1
                                \/ veterans[u].messages_today < config.daily_min_messages }
             IN  IF flagged = {}
                 THEN survivalRun'.pc = "idle" /\ veterans' = veterans
                 ELSE survivalRun'.pc = "revoking" /\ survivalRun'.to_remove = flagged
       /\ (survivalRun.pc = "revoking" /\ survivalRun'.pc # "revoking") =>
             veterans' = Remove(veterans, survivalRun.to_remove)]_vars

---------------------------------------------------------------------------
(* Transfers: every way perform_transfer answers, and the round trip *)

\* u2 as stored: <<present, coins_sent_today, garden_channel_id>>
RecipientSeeds == { <<TRUE, 0, 0>>, <<TRUE, 80, 0>>, <<FALSE, 0, 1>> }

InitTransfer ==
    /\ now = StartMinute
    /\ \E seed \in CoinsSeeds, r \in RecipientSeeds :
          LET v1 == StoredVeteran(seed[1], 40, seed[2], seed[3])
              v2 == StoredVeteran(0, DefaultPlantMaxWater, r[2], 1)
          IN  /\ veterans = IF r[1] THEN [u \in Users |-> IF u = "u1" THEN v1 ELSE v2]
                            ELSE [u \in {"u1"} |-> v1]
              /\ config = [DefaultConfig EXCEPT !.garden_channel_id = r[3]]
    /\ stored = veterans
    /\ roleMembers = Users
    /\ reply = ""
    /\ InitTasks
    /\ InitHost

\* what the dropdown holds: another member, the sender (the "No other
\* veterans found" option) or nothing picked yet
Recipients == Users \cup {NoUser}

\* amounts of the buttons and of the custom amount modal
TransferAmounts == {0} \cup Amounts

NextTransfer ==
    \/ \E u \in Users : send_open(u)
    \/ \E s \in Senders : \E r \in Recipients, a \in TransferAmounts : perform_transfer(s, r, a)
    \/ \E a \in Senders : \E b \in Users \ {a}, amt \in Amounts : transfer_round_trip(a, b, amt)
    \/ \E u \in Users : water_cb(u)
    \/ \E t \in DayStarts : AdvanceTime(t)

SpecTransfer == InitTransfer /\ [][NextTransfer]_vars

\* the coins and the day's sent amount of everybody are as they were
TransferLeavesBalances(today) ==
    /\ DOMAIN veterans' = DOMAIN veterans
    /\ \A u \in DOMAIN veterans :
          /\ veterans'[u].coins = veterans[u].coins
          /\ SentToday(veterans'[u], today) = SentToday(veterans[u], today)

\* C11 (amended): perform_transfer answers amount <= 0, the sender picked
\* as recipient, a recipient (or sender) without an entity, and a sender
\* who lacks the coins or would pass the day's cap, each with its own
\* message; a rejected transfer writes nothing to the file and leaves
\* everybody's coins and everybody's amount sent on the current day as
\* they were (a counter left from an earlier day is cleared in memory).
C11_TransferRejections ==
    [][\A s \in Senders : \A r \in Recipients, a \in TransferAmounts :
          perform_transfer(s, r, a) =>
            LET today == date_today(now)
                outcome ==
                    IF a <= 0 THEN "Amount must be positive."
                    ELSE IF r = NoUser THEN "Pick a recipient first."
                    ELSE IF r = s THEN "You can't send coins to yourself."
                    ELSE IF s \notin DOMAIN veterans \/ r \notin DOMAIN veterans
                    THEN "Both sender and recipient must be veterans."
                    ELSE IF \/ veterans[s].coins < a
                            \/ SentToday(veterans[s], today) + a > config.max_coins_send_per_day
                    THEN "Insufficient funds or daily limit reached"
                    ELSE "Sent"
            IN  /\ reply' = outcome
                /\ outcome # "Sent" => stored' = stored /\ TransferLeavesBalances(today)]_vars

\* a transfer was refused on a new day: the sender's counter of the day
\* before is cleared in memory and still 80 in the file
C11_Witness ==
    /\ reply = "Insufficient funds or daily limit reached"
    /\ veterans["u1"].coins_sent_today = 0
    /\ veterans["u1"].last_coins_reset = date_today(now)
    /\ stored["u1"].coins_sent_today = 80

\* C11 as stated: a rejected perform_transfer changes nobody's coins and
\* nobody's coins_sent_today.
C11_RejectedChangesNoCounter ==
    [][\A s \in Senders : \A r \in Recipients, a \in TransferAmounts :
          (perform_transfer(s, r, a) /\ reply' # "Sent") =>
             /\ DOMAIN veterans' = DOMAIN veterans
             /\ \A u \in DOMAIN veterans :
                   /\ veterans'[u].coins = veterans[u].coins
                   /\ veterans'[u].coins_sent_today = veterans[u].coins_sent_today]_vars

\* C12 (amended): when Transfer(a, b, amt) is accepted and the Transfer(b,
\* a, amt) that follows at once is accepted too, a and b have the coins
\* they had before the first transfer.
C12_RoundTripRestores ==
    [][\A a \in Senders : \A b \in Users \ {a}, amt \in Amounts :
          (/\ transfer_round_trip(a, b, amt)
           /\ transfer_result(veterans, stored, a, b, amt).reply = "Sent"
           /\ reply' = "Sent") =>
             /\ veterans'[a].coins = veterans[a].coins
             /\ veterans'[b].coins = veterans[b].coins]_vars

\* u1 sent 20 on top of 80 and has the 30 coins back; u2 returned the 20
C12_Witness ==
    /\ reply = "Sent"
    /\ "u2" \in DOMAIN veterans
    /\ veterans["u1"].coins = 30 /\ veterans["u1"].coins_sent_today = 100
    /\ veterans["u2"].coins = 0 /\ veterans["u2"].coins_sent_today = 20
    /\ veterans["u1"].last_coins_reset = 1 /\ veterans["u2"].last_coins_reset = 1

\* C12 as stated: for any two participants and any amount the two
\* transfers in a row leave both with the coins they had.
C12_RoundTripAnyAmount ==
    [][\A a \in Senders : \A b \in Users \ {a}, amt \in Amounts :
          (transfer_round_trip(a, b, amt) /\ {a, b} \subseteq DOMAIN veterans) =>
             /\ veterans'[a].coins = veterans[a].coins
             /\ veterans'[b].coins = veterans[b].coins]_vars

---------------------------------------------------------------------------
(* Daily check-in: streaks from the file and over consecutive days *)

\* u1 as stored: <<daily_streak, last_daily_claim>>
DailySeeds == { <<0, NoDate>>, <<1, 0>>, <<3, 0>>, <<7, 0>> }

InitDaily ==
    /\ now = StartMinute
    /\ \E seed \in DailySeeds, g \in {0, 1} :
          /\ veterans = [u \in Users |->
                IF u = "u1"
                THEN [StoredVeteran(0, 40, 0, 1) EXCEPT !.daily_streak = seed[1],
                                                        !.last_daily_claim = seed[2]]
                ELSE StoredVeteran(0, DefaultPlantMaxWater, 0, 1)]
          /\ config = [DefaultConfig EXCEPT !.garden_channel_id = g]
    /\ stored = veterans
    /\ roleMembers = Users
    /\ reply = ""
    /\ InitTasks
    /\ InitHost

NextDaily ==
    \/ \E u \in Users : daily_cb(u)
    \/ \E u \in Users : water_cb(u)
    \/ \E t \in DayStarts : AdvanceTime(t)

SpecDaily == InitDaily /\ [][NextDaily]_vars

\* C13: daily_cb by a participant whose last_daily_claim is today answers
\* "already claimed" and leaves their coins, xp, daily_streak and
\* last_daily_claim, and the file, as they were.
C13_SecondClaimRefused ==
    [][\A u \in Users :
          (/\ u \in roleMembers /\ u \in DOMAIN veterans
           /\ veterans[u].last_daily_claim = date_today(now)
           /\ daily_cb(u)) =>
             /\ reply' = "You've already claimed today."
             /\ veterans'[u].coins = veterans[u].coins
             /\ veterans'[u].xp = veterans[u].xp
             /\ veterans'[u].daily_streak = veterans[u].daily_streak
             /\ veterans'[u].last_daily_claim = veterans[u].last_daily_claim
             /\ stored' = stored]_vars

\* u1 claimed today (streak 1: 12 coins, 6 xp) and asked again
C13_Witness ==
    /\ reply = "You've already claimed today."
    /\ veterans["u1"].last_daily_claim = date_today(now)
    /\ veterans["u1"].daily_streak = 1
    /\ veterans["u1"].coins = 12 /\ veterans["u1"].xp = 6

\* C14: an accepted daily_cb sets daily_streak to the old streak + 1 when
\* last_daily_claim is yesterday and to 1 otherwise, adds daily_base_coins
\* + daily_streak_bonus_coins * min(streak, daily_streak_cap) coins and
\* daily_base_xp + daily_streak_bonus_xp * min(streak, daily_streak_cap)
\* xp, sets last_daily_claim to today and saves.
C14_ClaimGrant ==
    [][\A u \in Users :
          (/\ u \in roleMembers /\ u \in DOMAIN veterans
           /\ veterans[u].last_daily_claim # date_today(now)
           /\ daily_cb(u)) =>
             LET v == veterans[u]
                 w == veterans'[u]
                 today == date_today(now)
                 streak == IF v.last_daily_claim = today - 1 THEN v.daily_streak + 1 ELSE 1
                 counted == IF streak < daily_streak_cap THEN streak ELSE daily_streak_cap
             IN  /\ reply' = "Daily"
                 /\ w.daily_streak = streak
                 /\ w.coins = v.coins + daily_base_coins + daily_streak_bonus_coins * counted
                 /\ w.xp = v.xp + daily_base_xp + daily_streak_bonus_xp * counted
                 /\ w.last_daily_claim = today
                 /\ w = [v EXCEPT !.daily_streak = w.daily_streak, !.coins = w.coins,
                                  !.xp = w.xp, !.last_daily_claim = today]
                 /\ stored'[u] = w]_vars

\* the claim that follows a streak of 7: streak 8, bonus counted 7 times
C14_Witness ==
    /\ reply = "Daily"
    /\ veterans["u1"].daily_streak = 8
    /\ veterans["u1"].coins = 24 /\ veterans["u1"].xp = 12
    /\ veterans["u1"].last_daily_claim = date_today(now)

---------------------------------------------------------------------------
(* RecordActivity: on_message inside and outside the cooldown *)

\* the message of u arrives less than message_cooldown_seconds after the
\* last rewarded one
InsideCooldown(u) ==
    now_ts(now) - veterans[u].last_message_time < config.message_cooldown_seconds

\* C15 (amended): on_message inside the cooldown grants no xp and no coins
\* and leaves last_message_time as it was; outside the cooldown it adds
\* xp_per_message and coins_per_message and sets last_message_time to now.
\* In both cases it counts the message (messages_today + 1, from 0 when
\* last_message_day_local is not the local date), sets the marker to the
\* local date and saves.
C15_CooldownGatesRewardOnly ==
    [][\A u \in Users :
          (u \in DOMAIN veterans /\ on_message(u)) =>
             LET v == veterans[u]
                 w == veterans'[u]
                 today == local_date(now)
                 counted == IF v.last_message_day_local = today THEN v.messages_today ELSE 0
             IN  /\ InsideCooldown(u) =>
                       /\ w.xp = v.xp /\ w.coins = v.coins
                       /\ w.last_message_time = v.last_message_time
                 /\ ~InsideCooldown(u) =>
                       /\ w.xp = v.xp + config.xp_per_message
                       /\ w.coins = v.coins + config.coins_per_message
                       /\ w.last_message_time = now_ts(now)
                 /\ w.messages_today = counted + 1
                 /\ w.last_message_day_local = today
                 /\ stored' = veterans']_vars

\* two messages in the same minute: one reward, two messages counted
C15_Witness ==
    /\ now = StartMinute
    /\ veterans["u1"].last_message_time = now_ts(now)
    /\ veterans["u1"].xp = DefaultXpPerMessage
    /\ veterans["u1"].coins = DefaultCoinsPerMessage
    /\ veterans["u1"].messages_today = 2
    /\ stored["u1"].messages_today = 2

\* C15 as stated: on_message inside the cooldown is a no-op, the local-day
\* counter included.
C15_InsideCooldownNoOp ==
    [][\A u \in Users :
          (u \in DOMAIN veterans /\ InsideCooldown(u) /\ on_message(u)) =>
             /\ veterans'[u] = veterans[u]
             /\ stored' = stored]_vars

---------------------------------------------------------------------------
(* The decay schedule: polls every half interval under /set_degrade *)

InitSchedule ==
    /\ now = StartMinute
    /\ veterans = [u \in Users |->
                     StoredVeteran(0, IF u = "u1" THEN 1 ELSE 3, 0, 1)]
    /\ config = DefaultConfig
    /\ stored = veterans
    /\ roleMembers = Users
    /\ reply = ""
    /\ InitTasks
    /\ InitHost

\* polls half a default interval apart
ScheduleInstants ==
    { StartMinute + k * (DefaultDecreaseIntervalMinutes \div 2) : k \in 1..(2 * MaxTicks) }

NextSchedule ==
    \/ degrade_task_poll
    \/ \E o \in {"removed", "forbidden"} : degrade_task_resume(o)
    \/ \E retried \in BOOLEAN : degrade_task_raise(retried)
    \/ \E d \in DegradeSettings : set_degrade(d[1], d[2])
    \/ \E t \in ScheduleInstants : AdvanceTime(t)

SpecSchedule == InitSchedule /\ [][NextSchedule]_vars

\* this step is a poll that applies a decay tick
DecayTickStarts ==
    degradeRun.pc = "idle" /\ degradeLast # NoTime /\ degradeLast' # degradeLast

\* C16: a decay tick is applied only when the time since the last applied
\* tick is at least the interval configured at that poll, so two applied
\* ticks in a row are that far apart; an applied tick decays every
\* participant once: a tick in which nobody dies lowers every level by
\* water_decrease_amount, and a tick suspended for a dead plant does not
\* end before the participants after it in the snapshot had their turn.
C16_DecaySchedule ==
    [][/\ DecayTickStarts =>
             now_ts(now) - degradeLast >=
                 config.water_decrease_interval_minutes * SecondsPerMinute
       /\ (DecayTickStarts /\ degradeRun'.pc = "idle") =>
             /\ DOMAIN veterans \subseteq DOMAIN veterans'
             /\ \A u \in DOMAIN veterans :
                   veterans'[u].water_level =
                       veterans[u].water_level - config.water_decrease_amount
       /\ (degradeRun.pc = "revoking" /\ degradeRun'.pc # "revoking"
           /\ degradeRun'.ended = "raised") =>
             degradeRun.rest = <<>>]_vars

\* C17: when an applied decay tick is over, the file holds the decayed
\* water_level of every participant that was decayed and is still in the
\* active set.
C17_TickPersistsLevels ==
    [][DecayTickCompletes =>
          \A u \in DOMAIN veterans \cap DOMAIN veterans' :
             /\ u \in DOMAIN stored'
             /\ stored'[u].water_level = veterans'[u].water_level]_vars

---------------------------------------------------------------------------
(* Day-scoped counters: coins_sent_today and messages_today across the    *)
(* change of the date and of the local date                               *)

\* u1 as stored: <<messages_today, last_message_day_local>>; u1 sent 80 of
\* 30 coins on day 1.  u1 is the one who sends and chats; u2 receives and
\* is one more participant for daily_survival_task to judge
CounterSeeds == { <<10, 1>>, <<1, 1>>, <<10, 0>> }

InitCounters ==
    /\ now = StartMinute
    /\ \E seed \in CounterSeeds, g \in {0, 1} :
          /\ veterans = [u \in Users |->
                IF u = "u1"
                THEN [StoredVeteran(30, DefaultPlantMaxWater, 80, 1) EXCEPT
                         !.messages_today = seed[1], !.last_message_day_local = seed[2]]
                ELSE [StoredVeteran(0, DefaultPlantMaxWater, 0, 1) EXCEPT
                         !.messages_today = DefaultDailyMinMessages,
                         !.last_message_day_local = 1]]
          /\ config = [DefaultConfig EXCEPT !.garden_channel_id = g]
    /\ stored = veterans
    /\ roleMembers = Users
    /\ reply = ""
    /\ InitTasks
    /\ InitHost

\* a poll inside the window after each local midnight, and the starts of
\* the dates
CounterInstants == { LocalMidnight(d) + 2 : d \in 2..MaxDay } \cup DayStarts

NextCounters ==
    \/ \E s \in Senders : \E r \in Users \ {s}, a \in Amounts : perform_transfer(s, r, a)
    \/ \E u \in Senders : on_message(u)
    \/ daily_survival_task_poll
    \/ \E o \in {"removed", "forbidden"} : daily_survival_task_resume(o)
    \/ \E retried \in BOOLEAN : daily_survival_task_raise(retried)
    \/ daily_survival_task_finish
    \/ \E t \in CounterInstants : AdvanceTime(t)

SpecCounters == InitCounters /\ [][NextCounters]_vars

\* the messages counted for the local date day, as a reader that resets
\* first would see them
CountedOn(v, day) == IF v.last_message_day_local = day THEN v.messages_today ELSE 0

\* C18: no operation uses a day-scoped counter left from another day.
\* Transfer decides and counts on the amount sent today (0 when
\* last_coins_reset is not today) and leaves the marker at today;
\* on_message counts from 0 when last_message_day_local is not the local
\* date and leaves the marker at the local date; daily_survival_task
\* flags exactly the participants whose messages counted for yesterday's
\* local date (0 when the marker is another date) are below
\* daily_min_messages.
C18_NoStaleCounter ==
    [][/\ \A s \in Senders : \A r \in Users \ {s}, a \in Amounts :
             (perform_transfer(s, r, a) /\ {s, r} \subseteq DOMAIN veterans) =>
                LET today == date_today(now)
                    sent == SentToday(veterans[s], today)
                    accepted == /\ veterans[s].coins >= a
                                /\ sent + a <= config.max_coins_send_per_day
                IN  /\ (reply' = "Sent") = accepted
                    /\ veterans'[s].last_coins_reset = today
                    /\ veterans'[s].coins_sent_today = IF accepted THEN sent + a ELSE sent
       /\ \A u \in Users :
             (u \in DOMAIN veterans /\ on_message(u)) =>
                /\ veterans'[u].last_message_day_local = local_date(now)
                /\ veterans'[u].messages_today =
                       CountedOn(veterans[u], local_date(now)) + 1
       /\ (survivalRun.pc = "idle" /\ daily_survival_task_poll) =>
             LET flagged == { u \in DOMAIN veterans :
                                CountedOn(veterans[u], local_date(now) - 1)
                                    < config.daily_min_messages }
             IN  IF flagged = {} THEN survivalRun'.pc = "idle"
                 ELSE survivalRun'.pc = "revoking" /\ survivalRun'.to_remove = flagged]_vars

\* on day 2 u1 sent 30 although the file said 80 sent: the 80 were of day 1
C18_Witness ==
    /\ reply = "Sent"
    /\ date_today(now) = 2
    /\ veterans["u1"].last_coins_reset = 2
    /\ veterans["u1"].coins_sent_today = 30
    /\ veterans["u1"].coins = 0

---------------------------------------------------------------------------
(* Maintain by users with and without an entity, with and without the role *)

\* u1 is stored with 15 coins; u2 has no entity and holds the role or not
InitMaintain ==
    /\ now = StartMinute
    /\ veterans = [u \in {"u1"} |-> StoredVeteran(15, 40, 0, 1)]
    /\ \E g \in {0, 1} : config = [DefaultConfig EXCEPT !.garden_channel_id = g]
    /\ stored = veterans
    /\ roleMembers \in {Users, {"u1"}}
    /\ reply = ""
    /\ InitTasks
    /\ InitHost

NextMaintain ==
    \/ \E u \in Users : water_cb(u)
    \/ \E u \in Users, a \in {0, 10} : give_coins(u, a)
    \/ \E u \in Users : grant_role(u)
    \/ \E u \in Users : revoke_role(u)
    \/ \E t \in DayStarts : AdvanceTime(t)

SpecMaintain == InitMaintain /\ [][NextMaintain]_vars

\* C19 (amended): water_cb by a user without an entity who holds the
\* veteran role puts a new entity (0 coins, water_level plant_max_water)
\* for them into the active set and goes on as for any participant: with
\* a positive water_cost it answers "Not enough coins", takes nothing and
\* saves nothing.  water_cb by a user without the role answers "Only
\* veterans can water." and leaves the active set and the file as they
\* were.  There is no not-found answer.
C19_MaintainWithoutEntity ==
    [][\A u \in Users :
          (u \notin DOMAIN veterans /\ water_cb(u)) =>
             IF u \in roleMembers
             THEN /\ DOMAIN veterans' = DOMAIN veterans \cup {u}
                  /\ veterans'[u].coins = 0
                  /\ veterans'[u].water_level = config.plant_max_water
                  /\ \A x \in DOMAIN veterans : veterans'[x] = veterans[x]
                  /\ config.water_cost > 0 => reply' = "Not enough coins"
                  /\ stored' = stored
             ELSE /\ reply' = "Only veterans can water."
                  /\ veterans' = veterans
                  /\ stored' = stored]_vars

\* u2, a role holder with no entity, pressed Water: the entity exists in
\* memory only
C19_Witness ==
    /\ reply = "Not enough coins"
    /\ config.garden_channel_id = 0
    /\ "u2" \in DOMAIN veterans /\ "u2" \notin DOMAIN stored
    /\ veterans["u2"].coins = 0

\* C19 as stated: water_cb for an identifier without an entity answers
\* not-found, creates no entity and takes nothing.
C19_MaintainNotFound ==
    [][\A u \in Users :
          (u \notin DOMAIN veterans /\ water_cb(u)) =>
             /\ veterans' = veterans
             /\ reply' \notin {"Watered!", "Not enough coins"}]_vars

---------------------------------------------------------------------------
(* Revival: /revive against the decay ticks and /set_economy *)

\* u1 is stored with 10 coins, 5 xp and a plant about to die
InitRevive ==
    /\ now = StartMinute
    /\ \E g \in {0, 1} : config = [DefaultConfig EXCEPT !.garden_channel_id = g]
    /\ veterans = [u \in Users |->
                     IF u = "u1"
                     THEN [StoredVeteran(10, 1, 0, 1) EXCEPT !.xp = DefaultXpPerMessage]
                     ELSE StoredVeteran(0, 2, 0, 1)]
    /\ stored = veterans
    /\ roleMembers = Users
    /\ reply = ""
    /\ InitTasks
    /\ InitHost

NextRevive ==
    \/ \E u \in Users : revive(u)
    \/ degrade_task_poll
    \/ \E o \in {"removed", "forbidden"} : degrade_task_resume(o)
    \/ \E retried \in BOOLEAN : degrade_task_raise(retried)
    \/ \E e \in DecayEconomySettings : set_economy(e[1], e[2], e[3], e[4], e[5])
    \/ \E t \in DecayInstants : AdvanceTime(t)

SpecRevive == InitRevive /\ [][NextRevive]_vars

\* C20: /revive of a participant sets water_level to plant_max_water and
\* plant_start to now, leaves every other field of the participant and
\* every other participant as they were, and saves.
C20_ReviveFrame ==
    [][\A u \in Users :
          (u \in DOMAIN veterans /\ revive(u)) =>
             /\ veterans'[u] = [veterans[u] EXCEPT
                                  !.water_level = config.plant_max_water,
                                  !.plant_start = now_ts(now)]
             /\ \A x \in DOMAIN veterans \ {u} : veterans'[x] = veterans[x]
             /\ stored'[u] = veterans'[u]
             /\ reply' = "Revived"]_vars

\* u1, decayed or watered since the start, was revived at a later time
\* and has the 10 coins of the start
C20_Witness ==
    /\ reply = "Revived"
    /\ now > StartMinute
    /\ "u1" \in DOMAIN veterans
    /\ veterans["u1"].plant_start = now_ts(now)
    /\ veterans["u1"].water_level = config.plant_max_water
    /\ veterans["u1"].coins = 10 /\ veterans["u1"].xp = DefaultXpPerMessage

---------------------------------------------------------------------------
(* The participant store: start of the bot on any data.json, saves step    *)
(* by step, crashes and restarts                                           *)

\* a record as to_dict writes it, and one with a single field
StoreValues ==
    { json_object(to_dict([NewVeteran(DefaultConfig, 0) EXCEPT !.coins = 15, !.xp = 3])),
      json_object([coins |-> 7]),
      JsonNumber,
      JsonNull }

StoreKeys == <<"1", "2", "x">>

\* the entries of a data.json: each key is absent or has one of the values
StoreEntryLists ==
    { SelectSeq([i \in 1..Len(StoreKeys) |->
                    IF pick[i] = JsonNull /\ absent[i] THEN [tok |-> "absent"]
                    ELSE EntryChunk(StoreKeys[i], pick[i])],
                LAMBDA c : c.tok = "entry") :
        pick \in [1..Len(StoreKeys) -> StoreValues],
        absent \in [1..Len(StoreKeys) -> BOOLEAN] }

\* no file, an empty file, a text cut off after the brace, a list, or an object
StoreFiles ==
    { NoFile, FileOf(<<>>), FileOf(<<OpenChunk>>), FileOf(ArrayText) }
    \cup { FileOf(<<OpenChunk>> \o es \o <<CloseChunk>>) : es \in StoreEntryLists }

\* the entries of the file with a numeric key and a record as value
WellFormedEntries(file, cfg, t) ==
    LET es == load_json(file).entries
        ok == { i \in 1..Len(es) : int_uid(es[i].key) # NoUser /\ es[i].value.json = "object" }
    IN  [u \in { int_uid(es[i].key) : i \in ok } |->
            VeteranData(json_load_object(es[CHOOSE i \in ok : int_uid(es[i].key) = u].value),
                        cfg, t)]

InitStore ==
    /\ now = StartMinute
    /\ config = DefaultConfig
    /\ roleMembers = Users
    /\ reply = ""
    /\ InitTasks
    /\ boot = "starting"
    /\ veterans = <<>>
    /\ \E file \in StoreFiles, left \in {NoFile, FileOf(<<OpenChunk>>)} :
          /\ disk = [data |-> file, tmp |-> left]
          /\ stored = WellFormedEntries(file, config, now)
    /\ saveRun = IdleSave
    /\ panel = <<>>
    /\ bar = NoBar
    /\ handlerRun = [u \in Users |-> IdleHandler]
    /\ warnRun = IdleWarning
    /\ warnLog = [g \in Guilds |-> NoWarning]

NextStore ==
    \/ load_store
    \/ \E u \in Users : give_coins_saving(u, 20)
    \/ save_json_open
    \/ save_json_write
    \/ save_json_replace
    \/ process_crash

SpecStore == InitStore /\ [][NextStore]_vars

\* C21: loading the participant store never aborts: a missing or unreadable
\* file gives no participants, and a file with malformed entries (a key
\* that is no number, a value that is no record) gives exactly its
\* well-formed entries.
C21_LoadNeverAborts ==
    /\ boot # "aborted"
    /\ (boot = "running" /\ saveRun.ended = "" /\ saveRun.pc = "idle")
          => veterans = WellFormedEntries(disk.data, config, now)

\* C22: a crash at any step of save_json (before, while or after the
\* temporary file is written, or around the rename) leaves the store file
\* with the whole previous content or the whole new content, never a part.
C22_StoreFileNeverPartial ==
    saveRun.text # <<>> =>
        \/ disk.data = saveRun.previous
        \/ disk.data = FileOf(saveRun.text) /\ IsJsonObjectText(disk.data.text)

\* the process died while the temporary file held a part of the new text
C22_Witness ==
    /\ saveRun.ended = "crashed"
    /\ disk.tmp.exists
    /\ Len(disk.tmp.text) \in 1..(Len(saveRun.text) - 1)
    /\ disk.data = saveRun.previous
    /\ IsJsonObjectText(disk.data.text)
    /\ disk.data.text # saveRun.text
    /\ boot = "running"

---------------------------------------------------------------------------
(* The leaderboard: /leaderboard and the Refresh button over three and     *)
(* six participants                                                        *)

\* xp of u1..u6; the first three alone are the map {A: 50, B: 80, C: 80}
BoardXpSeeds ==
    { <<50, 80, 80>>, <<80, 80, 50>>, <<50, 60, 80>>, <<0, 0, 0>>,
      <<50, 80, 80, 60, 70, 90>>, <<60, 60, 70, 80, 90, 95>> }

\* plant_start of the i-th participant, in minutes after minute 0: all
\* planted together, in the order of the ids, or in the opposite order
BoardStartSeeds == { [i \in 1..6 |-> 0], [i \in 1..6 |-> i], [i \in 1..6 |-> 7 - i] }

\* who presses the Refresh button
Refreshers == {"u1", "u2"}

InitBoard ==
    /\ now = StartMinute
    /\ config = DefaultConfig
    /\ \E xps \in BoardXpSeeds, starts \in BoardStartSeeds :
          veterans = [u \in { UserOrder[i] : i \in 1..Len(xps) } |->
                        [NewVeteran(DefaultConfig, starts[id_rank(u)]) EXCEPT
                            !.xp = xps[id_rank(u)],
                            !.last_coins_reset = 1,
                            !.last_lb_refresh = IF u = "u1" THEN 1 ELSE NoDate]]
    /\ stored = veterans
    /\ roleMembers = DOMAIN veterans
    /\ reply = ""
    /\ InitTasks
    /\ InitHost

NextBoard ==
    \/ leaderboard
    \/ \E u \in Refreshers : refresh_cb(u)
    \/ \E t \in DayStarts : AdvanceTime(t)

SpecBoard == InitBoard /\ [][NextBoard]_vars

\* the rows of the embed come by descending xp, equal xp by ascending id
RankedByXpThenId(rows) ==
    \A i, j \in 1..Len(rows) :
        i < j => \/ rows[i].xp > rows[j].xp
                 \/ rows[i].xp = rows[j].xp /\ id_rank(rows[i].uid) < id_rank(rows[j].uid)

\* C23: the ranking is a function of the participant set alone:
\* participants come by descending points, and participants with equal
\* points by ascending identifier whatever the order of the map, so
\* {A: 50, B: 80, C: 80} is ranked B, C, A.
C23_RankingByPointsThenId == RankedByXpThenId(panel)

\* C24: building the leaderboard changes neither the active set nor a field
\* of a participant, and the embed lists at most 5 participants, none of
\* them with fewer points than a participant left out.
C24_LeaderboardFrameAndCut ==
    [][ /\ leaderboard => UNCHANGED <<veterans, stored, config, roleMembers>>
        /\ panel' # panel =>
              /\ Len(panel') <= 5
              /\ \A i \in 1..Len(panel') :
                    /\ panel'[i].uid \in DOMAIN veterans'
                    /\ panel'[i].xp = veterans'[panel'[i].uid].xp
              /\ \A u \in DOMAIN veterans' :
                    (\A i \in 1..Len(panel') : panel'[i].uid # u)
                       => \A i \in 1..Len(panel') : panel'[i].xp >= veterans'[u].xp
      ]_vars

\* five of six participants are listed, and the one left out has fewer
\* points than the last one listed
C24_Witness ==
    /\ Len(panel) = 5
    /\ Cardinality(DOMAIN veterans) = 6
    /\ \E u \in DOMAIN veterans :
          /\ \A i \in 1..5 : panel[i].uid # u
          /\ veterans[u].xp < panel[5].xp

\* C25: a participant refreshes the leaderboard at most once per calendar
\* day: a second refresh by the same participant on the same date is
\* refused and changes no state, a refresh on a later date goes through.
C25_RefreshOncePerDay ==
    [][ \A u \in Refreshers :
          (refresh_cb(u) /\ u \in DOMAIN veterans /\ u \in roleMembers) =>
             IF veterans[u].last_lb_refresh = date_today(now)
             THEN /\ reply' = "You've already refreshed today."
                  /\ UNCHANGED <<veterans, stored, panel>>
             ELSE /\ reply' = "Refreshed"
                  /\ veterans'[u].last_lb_refresh = date_today(now)
                  /\ stored' = veterans'
      ]_vars

\* u1, who had refreshed on day 1, refreshed on day 2 and was then refused
C25_Witness ==
    /\ date_today(now) = 2
    /\ veterans["u1"].last_lb_refresh = 2
    /\ stored["u1"].last_lb_refresh = 2
    /\ reply = "You've already refreshed today."

---------------------------------------------------------------------------
(* render_bar on its own: calls with any current, maximum and width *)

MaxBar == 6

\* current and maximum in halves, from below zero to above the maximum
BarCurrents == (-4)..(2 * MaxBar + 4)

BarMaximums == (-2)..(2 * MaxBar)

BarWidths == {0, 1, 2, 3, 18, 20}

InitBar ==
    /\ now = StartMinute
    /\ config = DefaultConfig
    /\ veterans = [u \in {"u1"} |-> NewVeteran(DefaultConfig, StartMinute)]
    /\ stored = veterans
    /\ roleMembers = {"u1"}
    /\ reply = ""
    /\ InitTasks
    /\ InitHost

NextBar ==
    \E current2 \in BarCurrents, maximum2 \in BarMaximums, width \in BarWidths :
        render_bar_call(current2, maximum2, width)

SpecBar == InitBar /\ [][NextBar]_vars

\* C26: render_bar(current, maximum, width) takes maximum = 0 as 1 and
\* never fails, and for every current and maximum its filled part is
\* between 0 and width: the proportion is in [0, 1].
C26_BarWithinWidth ==
    bar.filled # NoBar.filled =>
        /\ 0 <= bar.filled /\ bar.filled <= bar.width
        /\ int_of(bar.maximum) <= 0 =>
              bar.filled = IF int_of(bar.current) >= 1 THEN bar.width ELSE 0

\* a call with maximum 0 and a current above it, and the bar is full
C26_Witness ==
    /\ bar.maximum = 0
    /\ bar.current = 6
    /\ bar.width = 18
    /\ bar.filled = 18

---------------------------------------------------------------------------
(* Membership resync: veteran_scan_task over two guilds while roles are    *)
(* granted and revoked and entities are created                            *)

InitResync ==
    /\ now = StartMinute
    /\ \E garden \in {0, 1} : config = [DefaultConfig EXCEPT !.garden_channel_id = garden]
    /\ veterans = [u \in Users |->
                      IF u = "u1" THEN StoredVeteran(15, 40, 0, 1)
                      ELSE StoredVeteran(30, DefaultPlantMaxWater, 20, 1)]
    /\ stored = veterans
    /\ \E members \in SUBSET Users : roleMembers = members
    /\ reply = ""
    /\ InitTasks
    /\ InitHost

NextResync ==
    \/ \E g \in Guilds : resync_guild_veterans(g)
    \/ \E u \in Users : grant_role(u)
    \/ \E u \in Users : revoke_role(u)
    \/ \E u \in Users : give_coins(u, 20)
    \/ \E u \in Users : water_cb(u)
    \/ \E t \in DayStarts : AdvanceTime(t)

SpecResync == InitResync /\ [][NextResync]_vars

\* C27: membership resync removes a participant exactly when the veteran
\* role of that participant has been revoked: whatever guild it runs for,
\* it never removes a participant who holds the role, and it leaves the
\* fields of every participant it keeps unchanged.
C27_ResyncRemovesExactlyRevoked ==
    [][ /\ (\E g \in Guilds : resync_guild_veterans(g)) =>
              \A u \in DOMAIN veterans :
                 /\ u \in roleMembers => (u \in DOMAIN veterans' /\ veterans'[u] = veterans[u])
                 /\ u \notin DOMAIN veterans' => u \notin roleMembers
        /\ resync_guild_veterans(RoleGuild) =>
              \A u \in DOMAIN veterans : u \notin roleMembers => u \notin DOMAIN veterans'
      ]_vars

\* u2, whose role was revoked, is gone after a resync; u1 is kept as it was
C27_Witness ==
    /\ "u1" \in DOMAIN veterans /\ "u1" \in roleMembers
    /\ veterans["u1"] = StoredVeteran(15, 40, 0, 1)
    /\ "u2" \notin DOMAIN veterans /\ "u2" \notin roleMembers
    /\ "u2" \notin DOMAIN stored

---------------------------------------------------------------------------
(* Untended plants: degrade_task alone, polled at every instant, nobody    *)
(* waters and nobody is revived                                            *)

MaxStarveLevel == 3

StarveLevels == 1..MaxStarveLevel

\* the clock stops when every plant has had the ticks it can survive
StarveHorizon == StartMinute + (MaxStarveLevel + 1) * DefaultDecreaseIntervalMinutes

InitStarve ==
    /\ now = StartMinute
    /\ \E w1 \in StarveLevels, w2 \in StarveLevels :
          veterans = [u \in Users |-> StoredVeteran(0, IF u = "u1" THEN w1 ELSE w2, 0, 1)]
    /\ \E amount \in {1, 2} : config = [DefaultConfig EXCEPT !.water_decrease_amount = amount]
    /\ stored = veterans
    /\ roleMembers = Users
    /\ reply = ""
    /\ InitTasks
    /\ InitHost

\* tasks.loop(minutes=1.0): the poll due at the present instant has been
\* made, and the clock reaches the instant one interval later
degrade_task_wait ==
    /\ degradeRun.pc = "idle"
    /\ degradeLast # NoTime
    /\ ~degrade_due(now, degradeLast, config)
    /\ now < StarveHorizon
    /\ AdvanceTime(now + config.water_decrease_interval_minutes)

NextStarve ==
    \/ degrade_task_poll
    \/ \E o \in {"removed", "forbidden"} : degrade_task_resume(o)
    \/ \E retried \in BOOLEAN : degrade_task_raise(retried)
    \/ degrade_task_wait

\* the loop of degrade_task keeps polling, the clock keeps going, and a
\* call of member.remove_roles comes to its end
SpecStarve ==
    /\ InitStarve
    /\ [][NextStarve]_vars
    /\ WF_vars(degrade_task_poll)
    /\ WF_vars(degrade_task_wait)
    /\ WF_vars(\E o \in {"removed", "forbidden"} : degrade_task_resume(o))

\* C28: with decay ticks scheduled fairly and water_decrease_amount > 0, a
\* participant who is never maintained and never revived is eventually
\* removed from the active set.
C28_UntendedEventuallyRemoved ==
    \A u \in Users : <>(u \notin DOMAIN veterans)

---------------------------------------------------------------------------
(* Interleaving: the callbacks of Maintain, Transfer and ClaimDaily with   *)
(* their suspension points, on_message, and the three background tasks     *)

InitInterleave ==
    /\ now = StartMinute
    /\ \E garden \in {0, 1} : config = [DefaultConfig EXCEPT !.garden_channel_id = garden]
    /\ veterans = [u \in Users |->
                      IF u = "u1" THEN StoredVeteran(30, 40, 0, 1)
                      ELSE StoredVeteran(0, 1, 0, 1)]
    /\ stored = veterans
    /\ roleMembers = Users
    /\ reply = ""
    /\ InitTasks
    /\ InitHost

InterleaveInstants == { StartMinute + DefaultDecreaseIntervalMinutes }

NextInterleave ==
    \/ \E u \in Users : water_cb_start(u)
    \/ \E u \in Senders : daily_cb_start(u)
    \/ \E s \in Senders : \E r \in Users \ {s} : perform_transfer_start(s, r, 20)
    \/ \E u \in Users : handler_respond(u)
    \/ \E u \in Senders : on_message(u)
    \/ degrade_task_poll
    \/ \E o \in {"removed", "forbidden"} : degrade_task_resume(o)
    \/ \E g \in Guilds : resync_guild_veterans(g)
    \/ \E t \in InterleaveInstants : AdvanceTime(t)

SpecInterleave == InitInterleave /\ [][NextInterleave]_vars

\* the entity of u is on file as it is in memory
OnFile(u) == u \in DOMAIN stored' /\ stored'[u] = veterans'[u]

\* C29: no scheduler tick and no other operation runs inside Maintain,
\* Transfer, ClaimDaily or RecordActivity: validation, mutation and save
\* lie between two suspension points, so at every point where another task
\* can run the operation is applied as a whole or not at all (never a
\* sender debited with the receiver not yet credited).
C29_OperationsAppliedWhole ==
    [][ /\ \A s \in Senders : \A r \in Users \ {s} :
              (perform_transfer_start(s, r, 20) /\ {s, r} \subseteq DOMAIN veterans) =>
                 \/ /\ veterans'[s].coins = veterans[s].coins
                    /\ veterans'[r].coins = veterans[r].coins
                    /\ stored' = stored
                 \/ /\ veterans'[s].coins = veterans[s].coins - 20
                    /\ veterans'[r].coins = veterans[r].coins + 20
                    /\ OnFile(s) /\ OnFile(r)
        /\ \A u \in Users :
              (water_cb_start(u) /\ u \in DOMAIN veterans) =>
                 \/ veterans'[u] = veterans[u] /\ stored' = stored
                 \/ /\ veterans'[u].coins = veterans[u].coins - config.water_cost
                    /\ veterans'[u].water_level = config.plant_max_water
                    /\ OnFile(u)
        /\ \A u \in Senders :
              (daily_cb_start(u) /\ u \in DOMAIN veterans) =>
                 \/ veterans'[u] = veterans[u] /\ stored' = stored
                 \/ /\ veterans'[u].coins > veterans[u].coins
                    /\ veterans'[u].last_daily_claim = date_today(now)
                    /\ OnFile(u)
        /\ \A u \in Senders : on_message(u) => OnFile(u)
        /\ \A u \in Users : handler_respond(u) => UNCHANGED <<veterans, stored>>
      ]_vars

\* a decay tick is suspended in its revocation while the transfer of u1 is
\* suspended before its response: the 20 coins are with u2 and on file
C29_Witness ==
    /\ handlerRun["u1"] = [kind |-> "transfer", pc |-> "responding", reply |-> "Sent"]
    /\ degradeRun.pc = "revoking"
    /\ {"u1", "u2"} \subseteq DOMAIN veterans
    /\ veterans["u1"].coins = 10
    /\ veterans["u2"].coins = 20
    /\ stored["u1"].coins = 10
    /\ stored["u2"].coins = 20

\* C30: the decay tick deletes a participant only if that participant is
\* dead at the moment of the deletion: a participant whose water_level was
\* brought back above 0 (Maintain or /revive) while the tick was suspended
\* in the revocation of their role stays in the active set.
C30_DeletesOnlyTheDead ==
    [][ \A o \in {"removed", "forbidden"} :
          ( /\ degrade_task_resume(o)
            /\ degradeRun.uid \in DOMAIN veterans
            /\ veterans[degradeRun.uid].water_level > 0 )
          => degradeRun.uid \in DOMAIN veterans'
      ]_vars

---------------------------------------------------------------------------
(* Removal races: a decay tick suspended in a revocation while the         *)
(* membership resync and the Survival Monitor take participants out        *)

\* both plants are about to die, nobody has chatted; the decay tick that
\* kills them falls into the survival window of local day 2
InitRace ==
    /\ now = StartMinute
    /\ \E garden \in {0, 1} : config = [DefaultConfig EXCEPT !.garden_channel_id = garden]
    /\ \E w2 \in {1, 2} :
          veterans = [u \in Users |-> StoredVeteran(0, IF u = "u1" THEN 1 ELSE w2, 0, 1)]
    /\ stored = veterans
    /\ roleMembers = Users
    /\ reply = ""
    /\ InitTasks
    /\ InitHost

RaceInstants == { LocalMidnight(2) + m : m \in {2, 7} }

NextRace ==
    \/ degrade_task_poll
    \/ \E o \in {"removed", "forbidden"} : degrade_task_resume(o)
    \/ \E retried \in BOOLEAN : degrade_task_raise(retried)
    \/ \E g \in Guilds : resync_guild_veterans(g)
    \/ \E u \in Users : revoke_role(u)
    \/ daily_survival_task_poll
    \/ \E o \in {"removed", "forbidden"} : daily_survival_task_resume(o)
    \/ \E retried \in BOOLEAN : daily_survival_task_raise(retried)
    \/ daily_survival_task_finish
    \/ \E t \in RaceInstants : AdvanceTime(t)

SpecRace == InitRace /\ [][NextRace]_vars

\* the participants of the snapshot that the resumed tick reaches in this
\* step: those ahead of it that are not left for a later resumption
ReachedOnResume ==
    { u \in Users :
        /\ \E i \in 1..Len(degradeRun.rest) : degradeRun.rest[i] = u
        /\ ~(degradeRun'.pc = "revoking"
             /\ \E j \in 1..Len(degradeRun'.rest) : degradeRun'.rest[j] = u) }

\* C31: an applied decay tick always runs to completion: when the tick
\* resumes from the revocation of a dying participant's role it does not
\* end in an error, also when that participant was removed from the
\* active set meanwhile, and every participant of its snapshot that it
\* reaches and that is in the active set is decayed exactly once.
C31_TickRunsToCompletion ==
    [][ \A o \in {"removed", "forbidden"} :
          degrade_task_resume(o) =>
             /\ degradeRun'.ended # "raised"
             /\ degradeRun'.pc \in {"idle", "revoking"}
             /\ \A u \in ReachedOnResume \cap DOMAIN veterans :
                   /\ u \in DOMAIN veterans'
                   /\ veterans'[u] = degrade(veterans[u], config)
      ]_vars

---------------------------------------------------------------------------
(* Survival against activity recorded after local midnight *)

\* at time t the entity v shows that the quota of the local day before
\* was met: nothing recorded since that day's last message
QuotaMet(v, cfg, t) ==
    /\ v.last_message_day_local = local_date(t) - 1
    /\ v.messages_today >= cfg.daily_min_messages

\* C32: a participant who met the quota on the previous local day (marker
\* = that day, count >= daily_min_messages at local midnight) is not
\* removed by the Survival Monitor for that day: recording activity in
\* the 00:00-00:09 window leaves them outside the set that a poll of the
\* window removes, and an iteration removes nobody whose entity shows the
\* quota met.
C32_QuotaHolderSpared ==
    [][ /\ \A u \in DOMAIN veterans :
              ( /\ on_message(u)
                /\ in_survival_window(now)
                /\ QuotaMet(veterans[u], config, now) )
              => u \notin to_remove_of(veterans', local_date(now) - 1,
                                       config.daily_min_messages)
        /\ \A u \in DOMAIN veterans :
              ( /\ SurvivalStep
                /\ in_survival_window(now)
                /\ QuotaMet(veterans[u], config, now) )
              => u \in DOMAIN veterans'
      ]_vars

---------------------------------------------------------------------------
(* Conservation: transfers between two participants beside a third who    *)
(* takes no part                                                            *)

\* a role member who neither sends nor waters
Bystander == "u3"

\* <<the bystander has an entity, garden_channel_id>>
BystanderSeeds == { <<TRUE, 0>>, <<TRUE, 1>>, <<FALSE, 1>> }

InitConserve ==
    /\ now = StartMinute
    /\ \E seed \in CoinsSeeds, b \in BystanderSeeds :
          LET v1 == StoredVeteran(seed[1], 40, seed[2], seed[3])
              v2 == [StoredVeteran(0, DefaultPlantMaxWater, 0, 1) EXCEPT !.xp = 10]
              v3 == [StoredVeteran(7, 50, 0, 1) EXCEPT !.xp = DefaultXpPerMessage]
          IN  /\ veterans = [u \in (IF b[1] THEN Users \cup {Bystander} ELSE Users) |->
                               IF u = "u1" THEN v1 ELSE IF u = "u2" THEN v2 ELSE v3]
              /\ config = [DefaultConfig EXCEPT !.garden_channel_id = b[2]]
    /\ stored = veterans
    /\ roleMembers = Users \cup {Bystander}
    /\ reply = ""
    /\ InitTasks
    /\ InitHost

NextConserve ==
    \/ \E s \in Users : \E r \in (Users \cup {Bystander}) \ {s}, a \in Amounts :
          perform_transfer(s, r, a)
    \/ \E u \in Users : water_cb(u)
    \/ \E t \in DayStarts : AdvanceTime(t)

SpecConserve == InitConserve /\ [][NextConserve]_vars

\* apart from the sender's counter: the coins move from s to r, and the
\* coins, xp and water_level of everybody else, and the xp and
\* water_level of s and r, are as they were
TransferMovesCoins(s, r, a) ==
    /\ veterans'[s].coins = veterans[s].coins - a
    /\ veterans'[r].coins = veterans[r].coins + a
    /\ \A u \in DOMAIN veterans :
          /\ u \in DOMAIN veterans'
          /\ veterans'[u].xp = veterans[u].xp
          /\ veterans'[u].water_level = veterans[u].water_level
          /\ u \notin {s, r} => veterans'[u].coins = veterans[u].coins

\* C33 (amended): a successful Transfer of amount from sender to receiver
\* conserves the total: the sender's coins decrease by exactly amount, the
\* receiver's increase by exactly amount, the amount the sender has sent
\* on the current day increases by amount (a coins_sent_today left from
\* an earlier day counts as 0), and the coins, xp and water_level of
\* every other participant, and the xp and water_level of both parties,
\* are unchanged.
C33_TransferConserves ==
    [][ \A s \in Users : \A r \in (Users \cup {Bystander}) \ {s}, a \in Amounts :
          (perform_transfer(s, r, a) /\ reply' = "Sent") =>
             /\ TransferMovesCoins(s, r, a)
             /\ veterans'[s].coins_sent_today =
                   SentToday(veterans[s], date_today(now)) + a
             /\ veterans'[s].last_coins_reset = date_today(now)
      ]_vars

\* on day 2 u1, with 80 sent on day 1, has sent 20 of 30 coins to the
\* bystander: the counter reads 20
C33_Witness ==
    /\ reply = "Sent"
    /\ date_today(now) = 2
    /\ veterans["u1"].coins = 10
    /\ veterans["u1"].coins_sent_today = 20
    /\ veterans["u1"].last_coins_reset = 2
    /\ Bystander \in DOMAIN veterans
    /\ veterans[Bystander].coins = 27
    /\ veterans[Bystander].xp = DefaultXpPerMessage
    /\ veterans["u2"].coins = 0
    /\ stored["u1"].coins_sent_today = 20

\* C33 as stated: the field coins_sent_today of the sender increases by
\* amount in every successful Transfer.
C33_SentFieldIncreases ==
    [][ \A s \in Users : \A r \in (Users \cup {Bystander}) \ {s}, a \in Amounts :
          (perform_transfer(s, r, a) /\ reply' = "Sent") =>
             /\ TransferMovesCoins(s, r, a)
             /\ veterans'[s].coins_sent_today = veterans[s].coins_sent_today + a
      ]_vars

---------------------------------------------------------------------------
(* Round trip: save_all written out by save_json, the process started      *)
(* again, and data.json loaded by VeteranBot.__init__                      *)

\* <<coins, water_level>>, <<daily_streak, last_daily_claim>> and
\* <<messages_today, last_message_day_local, last_lb_refresh>> of u1
RoundTripBalances == { <<0, 40>>, <<15, 0 - 1>> }
RoundTripClaims == { <<0, NoDate>>, <<3, 1>> }
RoundTripCounts == { <<0, NoDate, NoDate>>, <<10, 1, 1>> }

InitRoundTrip ==
    /\ now = StartMinute
    /\ config = DefaultConfig
    /\ \E b \in RoundTripBalances, c \in RoundTripClaims, m \in RoundTripCounts,
          both \in BOOLEAN :
          LET v1 == [StoredVeteran(b[1], b[2], 80, 0) EXCEPT
                        !.xp = DefaultXpPerMessage,
                        !.last_message_time = now_ts(StartMinute - 1),
                        !.daily_streak = c[1], !.last_daily_claim = c[2],
                        !.messages_today = m[1], !.last_message_day_local = m[2],
                        !.last_lb_refresh = m[3]]
              v2 == NewVeteran(DefaultConfig, 0)
          IN  veterans = [u \in (IF both THEN Users ELSE {"u1"}) |->
                             IF u = "u1" THEN v1 ELSE v2]
    /\ stored = <<>>
    /\ roleMembers = Users
    /\ reply = ""
    /\ InitTasks
    /\ InitHost

NextRoundTrip ==
    \/ \E u \in Users : give_coins_saving(u, 20)
    \/ save_json_open
    \/ save_json_write
    \/ save_json_replace
    \/ process_crash
    \/ load_store
    \/ \E t \in DayStarts : AdvanceTime(t)

SpecRoundTrip == InitRoundTrip /\ [][NextRoundTrip]_vars

\* C34: persistence round-trips: after save_all has written the active
\* set (save_json came to its end), loading data.json at startup yields
\* the same set of participant identifiers, each with the same values of
\* all twelve persisted fields (stored is the active set as it was saved).
C34_SaveLoadRoundTrip ==
    [][ (load_store /\ saveRun.ended = "replaced") =>
            /\ boot' = "running"
            /\ DOMAIN veterans' = DOMAIN stored
            /\ \A u \in DOMAIN stored : veterans'[u] = stored[u]
      ]_vars

\* both participants were saved, the process was started again on a later
\* day and has loaded them: u1 with a streak of 3, a water_level below 0
\* and the 35 coins of the save
C34_Witness ==
    /\ boot = "running"
    /\ saveRun.ended = "replaced" /\ saveRun.pc = "idle"
    /\ date_today(now) = 2
    /\ disk.data.exists /\ disk.data.text = saveRun.text
    /\ DOMAIN veterans = Users
    /\ veterans = stored
    /\ veterans["u1"].coins = 35
    /\ veterans["u1"].water_level = 0 - 1
    /\ veterans["u1"].daily_streak = 3
    /\ veterans["u1"].last_daily_claim = 1
    /\ veterans["u1"].messages_today = 10
    /\ veterans["u1"].last_coins_reset = 0
    /\ veterans["u2"].last_daily_claim = NoDate

---------------------------------------------------------------------------
(* The daily warning: daily_warning_task around the warning hour, with     *)
(* restarts of the bot, /warnings and /rewards_add                         *)

\* config.reward_channel_ids at the start
RewardChannelSeeds == { <<>>, <<"c1">>, <<"c1", "c2">>, <<"c3", "c1">>, <<"c4">> }

\* u1's plant is low on water, u2's is not
InitWarning ==
    /\ now = StartMinute
    /\ \E ids \in RewardChannelSeeds :
          config = [DefaultConfig EXCEPT !.reward_channel_ids = ids]
    /\ veterans = [u \in Users |->
                      StoredVeteran(10, IF u = "u1" THEN DefaultLowWaterThreshold
                                        ELSE DefaultPlantMaxWater, 0, 1)]
    /\ stored = veterans
    /\ roleMembers = Users
    /\ reply = ""
    /\ InitTasks
    /\ InitHost

\* local time hour:minute of local day d, in minutes of the clock
LocalTime(d, hour, minute) == LocalMidnight(d) + hour * MinutesPerHour + minute

WarningHours == {DefaultWarningHour, DefaultWarningHour + 1}

WarningInstants ==
    { LocalTime(d, h, m) : d \in 1..MaxDay, h \in WarningHours, m \in {2, 7} }

NextWarning ==
    \/ daily_warning_task_poll
    \/ \E o \in {"sent", "failed"} : daily_warning_task_resume(o)
    \/ \E hour \in WarningHours : warnings(TRUE, hour)
    \/ rewards_add("c2")
    \/ \E u \in {"u1"} : water_cb(u)
    \/ bot_restart
    \/ \E t \in WarningInstants : AdvanceTime(t)

SpecWarning == InitWarning /\ [][NextWarning]_vars

\* C35: the daily water warning is sent at most once per guild per local
\* calendar date: of the polls of daily_warning_task made on one date at
\* most one sends to a guild, and once that poll has recorded the date for
\* the guild, no later step on that date sends anything to that guild.
C35_WarningOncePerDate ==
    [][ /\ \A g \in Guilds : warnLog'[g].polls <= 1
        /\ \A g \in Guilds :
              config.daily_warning_last[g] = local_date(now) => warnLog'[g] = warnLog[g]
      ]_vars

\* the guild of the role got its warning in both of its reward channels
\* from one poll at 20:02; the bot was started again, the warning hour moved
\* to 21, and the poll at 21:02 of the same date found the date recorded
C35_Witness ==
    /\ warnLog[RoleGuild].polls = 1
    /\ warnLog[RoleGuild].date = local_date(now)
    /\ config.daily_warning_last[RoleGuild] = local_date(now)
    /\ config.daily_warning_hour_local = DefaultWarningHour + 1
    /\ in_warning_window(now, config)
    /\ warnRun.pc = "idle"
    /\ warnRun.polled = now
    /\ warnRun.iteration = 1
    /\ Len(config.reward_channel_ids) = 2

====
